---- MODULE Spec2Model ----
(***************************************************************************)
(* Path of Adventure: the turn-based combat engine (CombatEngine), the     *)
(* controller that drives it (GameController) and the ledgers they use     *)
(* (StatusEffectManager, InventoryManager, LevelingSystem).                *)
(*                                                                         *)
(* JavaScript reference semantics that the code relies on are kept:        *)
(*  - new CombatEngine(player, enemy) copies the two Character objects     *)
(*    shallowly ({...player}): numbers are copied, the inventory object    *)
(*    and the statusEffects array are shared with the original.  So there  *)
(*    is ONE inventory per owner (variable inventory), and the effect      *)
(*    objects of an owner are kept in one sequence of cells, each cell     *)
(*    saying in which of the two arrays (the original character's, the     *)
(*    combat copy's) the object currently is.                              *)
(*  - Math.random() is a roll r in 0..99 standing for the draw r/100.      *)
(*                                                                         *)
(* The combat log is append-only and the program never reads it: field     *)
(* combatLog holds the entries appended by the latest call that got past   *)
(* executeAction's isActive guard, in order; older entries are not kept.   *)
(***************************************************************************)
EXTENDS Integers, Sequences, FiniteSets, TLC

VARIABLES
  chars,      \* the Character objects passed to the engine: chars.PLAYER (gameState.player), chars.ENEMY
  cs,         \* CombatEngine.combatState
  inventory,  \* the Inventory object of each owner (shared by original and combat copy)
  effects,    \* the StatusEffect objects of each owner, with their array membership
  sameArr,    \* whether the combat copy's statusEffects is still the original's array
  gc,         \* GameController: combatEngine / currentCombat references
  ret,        \* what the last call was
  calls,      \* number of calls made so far that the bounds count
  encounters  \* number of encounters started so far

vars == <<chars, cs, inventory, effects, sameArr, gc, ret, calls, encounters>>

\* ---------------------------------------------------------------- bounds
MaxActions == 5
MaxCalls == 2
MaxEncounters == 1

\* -------------------------------------------------------- program constants
MAX_INVENTORY_SLOTS == 4
DEFEND_DURATION == 1
BOOST_DURATION == 3
LOW_DURABILITY == 5
BASE_FLEE_PERCENT == 30

Owners == {"PLAYER", "ENEMY"}
Other(o) == IF o = "PLAYER" THEN "ENEMY" ELSE "PLAYER"

Min(a, b) == IF a < b THEN a ELSE b
Max(a, b) == IF a > b THEN a ELSE b


\* ------------------------------------------------------------------ items
NullItem ==
  [id |-> "null", type |-> "NONE", rarity |-> "COMMON", hasStats |-> FALSE,
   attack |-> 0, defense |-> 0, speed |-> 0, health |-> 0,
   hasDurability |-> FALSE, durability |-> 0, maxDurability |-> 0, value |-> 0]

Weapon(id, atk, dur, maxDur, val) ==
  [NullItem EXCEPT !.id = id, !.type = "WEAPON", !.hasStats = TRUE, !.attack = atk,
                   !.hasDurability = TRUE, !.durability = dur, !.maxDurability = maxDur,
                   !.value = val]

Armor(id, def, dur, maxDur, val) ==
  [NullItem EXCEPT !.id = id, !.type = "ARMOR", !.hasStats = TRUE, !.defense = def,
                   !.hasDurability = TRUE, !.durability = dur, !.maxDurability = maxDur,
                   !.value = val]

Consumable(id, hp, atk, def, spd, val) ==
  [NullItem EXCEPT !.id = id, !.type = "CONSUMABLE", !.hasStats = TRUE, !.health = hp,
                   !.attack = atk, !.defense = def, !.speed = spd, !.value = val]

\* GameController.initializeNewGame's starting equipment
StartingWeapon == Weapon("starter-sword", 3, 50, 50, 10)
StartingPotion == Consumable("starter-potion", 30, 0, 0, 0, 20)
\* a sword of the same make, one hit from breaking
WornSword == Weapon("worn-sword", 3, 1, 50, 10)
LeatherArmor == Armor("leather-armor", 2, 20, 20, 15)
\* a consumable with a non-health stat
AttackTonic == Consumable("attack-tonic", 0, 4, 0, 0, 25)
\* a consumable without a stats object
EmptyVial == [NullItem EXCEPT !.id = "empty-vial", !.type = "CONSUMABLE", !.value = 1]
\* a consumable with a health, a defense and a speed stat
Elixir == Consumable("elixir", 30, 0, 2, 1, 40)
\* GameController.generateRandomEnemy's potion for an enemy of level lvl
EnemyPotion(lvl) == Consumable("enemy-potion", 20 + lvl * 5, 0, 0, 0, 20)

EmptySlots == [i \in 1..MAX_INVENTORY_SLOTS |-> NullItem]

RECURSIVE PutItems(_, _, _)
PutItems(slots, items, i) ==
  IF i > Len(items) THEN slots
  ELSE PutItems([slots EXCEPT ![i] = items[i]], items, i + 1)

\* an inventory of MAX_INVENTORY_SLOTS slots holding items in its first slots
InventoryOf(items) == PutItems(EmptySlots, items, 1)

\* Array.prototype.findIndex: 0 where the source returns -1
FindIndex(matching) ==
  IF matching = {} THEN 0 ELSE CHOOSE i \in matching : \A j \in matching : i <= j

\* item?.type === 'WEAPON' && item.durability && item.durability > 0
IsUsableWeapon(item) ==
  item.id # "null" /\ item.type = "WEAPON" /\ item.hasDurability /\ item.durability > 0

IsUsableArmor(item) ==
  item.id # "null" /\ item.type = "ARMOR" /\ item.hasDurability /\ item.durability > 0

\* items.find(item => item?.type === 'WEAPON' && ...), as the index of the slot
WeaponIndex(slots) == FindIndex({i \in DOMAIN slots : IsUsableWeapon(slots[i])})

ArmorIndex(slots) == FindIndex({i \in DOMAIN slots : IsUsableArmor(slots[i])})

\* items.findIndex(item => item?.id === itemId)
ItemIndex(slots, itemId) ==
  FindIndex({i \in DOMAIN slots : slots[i].id # "null" /\ slots[i].id = itemId})

\* ---------------------------------------------------------- status effects
Effect(name, type, duration, power) ==
  [name |-> name, type |-> type, duration |-> duration, power |-> power,
   inOrig |-> TRUE, inComb |-> TRUE]

\* the statusEffects array of the combat copy / of the original character
CombArr(cells) == SelectSeq(cells, LAMBDA c : c.inComb)
OrigArr(cells) == SelectSeq(cells, LAMBDA c : c.inOrig)

RECURSIVE SumPower(_, _)
SumPower(arr, type) ==
  IF arr = <<>> THEN 0
  ELSE (IF Head(arr).type = type THEN Head(arr).power ELSE 0) + SumPower(Tail(arr), type)

\* -------------------------------------------------------------- characters
Character(hp, maxHp, atk, def, spd, lvl, xp, xpNext, gold) ==
  [health |-> hp, maxHealth |-> maxHp, attack |-> atk, defense |-> def, speed |-> spd,
   level |-> lvl, experience |-> xp, experienceToNext |-> xpNext, gold |-> gold]

LogEntry(text, who, n) == [text |-> text, who |-> who, n |-> n]

\* ------------------------------------------------------------ CombatEngine
\* A world is the part of the heap the engine and the controller work on.
World == [chars |-> chars, cs |-> cs, inventory |-> inventory, effects |-> effects,
          sameArr |-> sameArr, gc |-> gc]

\* combatState.player / combatState.enemy
Combatant(c, who) == IF who = "PLAYER" THEN c.player ELSE c.enemy

SetCombatant(c, who, ch) ==
  IF who = "PLAYER" THEN [c EXCEPT !.player = ch] ELSE [c EXCEPT !.enemy = ch]

\* addLogEntry, for a sequence of entries
addLogEntries(w, entries) == [w EXCEPT !.cs.combatLog = @ \o entries]

\* determineFirstTurn: player.speed + random*10 >= enemy.speed + random*10
determineFirstTurn(player, enemy, r1, r2) ==
  IF 10 * player.speed + r1 >= 10 * enemy.speed + r2 THEN "PLAYER" ELSE "ENEMY"

\* new CombatEngine(player, enemy): shallow copies of both characters
NewCombatState(player, enemy, r1, r2) ==
  LET first == determineFirstTurn(player, enemy, r1, r2)
  IN [player |-> player, enemy |-> enemy, turn |-> first, phase |-> "ATTACK",
      turnCount |-> 1, isActive |-> TRUE,
      combatLog |-> <<LogEntry("Combat started", "PLAYER", 0),
                      LogEntry("goes first", first, 0)>>]

\* the filter callback of applyStatusEffects for one effect object c; st carries the
\* character's health, the stun flag, the log entries and the cells kept so far
TurnStartEffect(st, c, who) ==
  LET hp == CASE c.type = "POISON" -> Max(0, st.health - c.power)
              [] c.type = "REGENERATION" -> Min(st.maxHealth, st.health + c.power)
              [] OTHER -> st.health
      entry == CASE c.type = "POISON" -> <<LogEntry("takes poison damage", who, c.power)>>
                 [] c.type = "REGENERATION" -> <<LogEntry("regenerates", who, c.power)>>
                 [] c.type = "STUN" -> <<LogEntry("is stunned and cannot act", who, 0)>>
                 [] OTHER -> <<>>
      d == c.duration - 1
      c2 == [c EXCEPT !.duration = d, !.inComb = (d > 0)]
  IN [health |-> hp, maxHealth |-> st.maxHealth,
      stunned |-> (st.stunned \/ c.type = "STUN"),
      log |-> st.log \o entry,
      cells |-> IF c2.inComb \/ c2.inOrig THEN Append(st.cells, c2) ELSE st.cells]

RECURSIVE TurnStartFold(_, _, _, _)
TurnStartFold(cells, i, st, who) ==
  IF i > Len(cells) THEN st
  ELSE IF cells[i].inComb
       THEN TurnStartFold(cells, i + 1, TurnStartEffect(st, cells[i], who), who)
       ELSE TurnStartFold(cells, i + 1, [st EXCEPT !.cells = Append(@, cells[i])], who)

\* applyStatusEffects: the turn owner's effects act, lose one turn and are filtered
applyStatusEffects(w) ==
  LET who == w.cs.turn
      ch == Combatant(w.cs, who)
      st == TurnStartFold(w.effects[who], 1,
                          [health |-> ch.health, maxHealth |-> ch.maxHealth,
                           stunned |-> FALSE, log |-> <<>>, cells |-> <<>>], who)
      c1 == SetCombatant(w.cs, who, [ch EXCEPT !.health = st.health])
      c2 == [c1 EXCEPT !.phase = IF st.stunned THEN "DEFEND" ELSE @,
                       !.combatLog = @ \o st.log]
  IN [w EXCEPT !.cs = c2, !.effects[who] = st.cells, !.sameArr[who] = FALSE]

\* a final damage without the minimum of 1
finalDamageNoMinimum(damage, defense, isCritical) ==
  ((IF isCritical THEN 3 * damage ELSE 2 * damage) - defense) \div 2

\* if (isCritical) damage *= 1.5; Math.max(1, Math.floor(damage - defense * 0.5)):
\* damage - defense / 2 is (2 * damage - defense) / 2, and 3 * damage on a critical hit
finalDamage(damage, defense, isCritical) ==
  Max(1, ((IF isCritical THEN 3 * damage ELSE 2 * damage) - defense) \div 2)

\* calculateDamage: the three draws are the dodge, block and critical rolls
calculateDamage(attacker, defender, atkInv, defInv, atkEffects, defEffects, rolls) ==
  LET wi == WeaponIndex(atkInv)
      weaponAttack == IF wi # 0 THEN atkInv[wi].attack ELSE 0
      damage == attacker.attack + weaponAttack + SumPower(atkEffects, "ENCHANT_ATTACK")
      ai == ArmorIndex(defInv)
      armorDefense == IF ai # 0 THEN defInv[ai].defense ELSE 0
      defense == defender.defense + armorDefense + SumPower(defEffects, "ENCHANT_DEFENSE")
      \* random < defender.speed / (defender.speed + attacker.speed) * 0.2
      dodged == /\ defender.speed + attacker.speed > 0
                /\ rolls.dodge * (defender.speed + attacker.speed) < 20 * defender.speed
      \* random < defense / (defense + damage) * 0.15
      blocked == /\ defense + damage > 0
                 /\ rolls.block * (defense + damage) < 15 * defense
      \* random < 0.1 + attacker.speed / 100
      isCritical == rolls.crit < 10 + attacker.speed
  IN IF dodged THEN [damage |-> 0, isCritical |-> FALSE, dodged |-> TRUE, blocked |-> FALSE]
     ELSE IF blocked
          THEN [damage |-> 0, isCritical |-> FALSE, dodged |-> FALSE, blocked |-> TRUE]
          ELSE [damage |-> finalDamage(damage, defense, isCritical), isCritical |-> isCritical,
                dodged |-> FALSE, blocked |-> FALSE]

\* a durability loss that wears every usable weapon of the attacker
wearEveryWeapon(w, who) ==
  [w EXCEPT !.inventory[who] =
     [i \in DOMAIN @ |-> IF IsUsableWeapon(@[i])
                          THEN [@[i] EXCEPT !.durability = @ - 1] ELSE @[i]]]

\* applyWeaponDurabilityLoss
applyWeaponDurabilityLoss(w, who) ==
  LET inv == w.inventory[who]
      wi == WeaponIndex(inv)
      d == inv[wi].durability - 1
      entry == IF d <= 0 THEN <<LogEntry("has broken", who, 0)>>
               ELSE IF d <= LOW_DURABILITY THEN <<LogEntry("is about to break", who, d)>>
               ELSE <<>>
  IN IF wi = 0 THEN w
     ELSE addLogEntries([w EXCEPT !.inventory[who][wi].durability = d], entry)

\* a subtraction without the floor at 0
healthUnclamped(health, damage) == health - damage

\* defender.health = Math.max(0, defender.health - result.damage)
healthAfterDamage(health, damage) == Max(0, health - damage)

\* handleAttack
handleAttack(w, rolls) ==
  LET a == w.cs.turn
      d == Other(a)
      attacker == Combatant(w.cs, a)
      defender == Combatant(w.cs, d)
      result == calculateDamage(attacker, defender, w.inventory[a], w.inventory[d],
                                CombArr(w.effects[a]), CombArr(w.effects[d]), rolls)
      hit == [w EXCEPT !.cs = SetCombatant(@, d,
                 [defender EXCEPT !.health = healthAfterDamage(defender.health, result.damage)])]
  IN IF result.dodged THEN addLogEntries(w, <<LogEntry("dodged the attack", d, 0)>>)
     ELSE IF result.blocked THEN addLogEntries(w, <<LogEntry("blocked the attack", d, 0)>>)
     ELSE applyWeaponDurabilityLoss(
            addLogEntries(hit, <<LogEntry(IF result.isCritical
                                          THEN "deals damage, critical hit"
                                          ELSE "deals damage", a, result.damage)>>), a)

\* statusEffects.push(effect) on the combat copy of who: the object goes into the
\* combat copy's array, which is the original's array too while it is shared
pushEffect(w, who, name, type, duration, power) ==
  [w EXCEPT !.effects[who] = Append(@,
     [name |-> name, type |-> type, duration |-> duration, power |-> power,
      inOrig |-> w.sameArr[who], inComb |-> TRUE])]

\* a defend whose stance lasts two turns of its owner
handleDefendTwoTurns(w) ==
  LET who == w.cs.turn
      defender == Combatant(w.cs, who)
      healAmount == (defender.maxHealth * 5) \div 100
      healed == [w EXCEPT !.cs = SetCombatant(@, who,
                   [defender EXCEPT !.health = Min(defender.maxHealth, defender.health + healAmount)])]
      logged == addLogEntries(healed, <<LogEntry("defends and recovers", who, healAmount)>>)
  IN pushEffect(logged, who, "Defensive Stance", "ENCHANT_DEFENSE", DEFEND_DURATION + 1,
                defender.defense \div 2)

\* handleDefend
handleDefend(w) ==
  LET who == w.cs.turn
      defender == Combatant(w.cs, who)
      healAmount == (defender.maxHealth * 5) \div 100
      healed == [w EXCEPT !.cs = SetCombatant(@, who,
                   [defender EXCEPT !.health = Min(defender.maxHealth, defender.health + healAmount)])]
      logged == addLogEntries(healed, <<LogEntry("defends and recovers", who, healAmount)>>)
  IN pushEffect(logged, who, "Defensive Stance", "ENCHANT_DEFENSE", DEFEND_DURATION,
                defender.defense \div 2)

\* applyConsumableEffect
applyConsumableEffect(w, who, item) ==
  LET user == Combatant(w.cs, who)
      w1 == IF item.health # 0
            THEN addLogEntries(
                   [w EXCEPT !.cs = SetCombatant(@, who,
                      [user EXCEPT !.health = Min(user.maxHealth, user.health + item.health)])],
                   <<LogEntry("uses item and heals", who, item.health)>>)
            ELSE w
      w2 == IF item.attack # 0
            THEN addLogEntries(
                   pushEffect(w1, who, "Attack Boost", "ENCHANT_ATTACK", BOOST_DURATION, item.attack),
                   <<LogEntry("gains attack", who, item.attack)>>)
            ELSE w1
      w3 == IF item.defense # 0
            THEN addLogEntries(
                   pushEffect(w2, who, "Defense Boost", "ENCHANT_DEFENSE", BOOST_DURATION, item.defense),
                   <<LogEntry("gains defense", who, item.defense)>>)
            ELSE w2
      w4 == IF item.speed # 0
            THEN addLogEntries(
                   pushEffect(w3, who, "Speed Boost", "ENCHANT_SPEED", BOOST_DURATION, item.speed),
                   <<LogEntry("gains speed", who, item.speed)>>)
            ELSE w3
  IN IF item.hasStats THEN w4 ELSE w

\* an item use that keeps a consumable without stats in its slot
handleItemUseKeepsUnused(w, itemId) ==
  LET who == w.cs.turn
      inv == w.inventory[who]
      itemIndex == ItemIndex(inv, itemId)
      used == applyConsumableEffect(w, who, inv[itemIndex])
  IN IF itemIndex = 0 THEN addLogEntries(w, <<LogEntry("Item not found", who, 0)>>)
     ELSE IF inv[itemIndex].type = "CONSUMABLE" /\ inv[itemIndex].hasStats
          THEN [used EXCEPT !.inventory[who][itemIndex] = NullItem]
          ELSE w

\* handleItemUse
handleItemUse(w, itemId) ==
  LET who == w.cs.turn
      inv == w.inventory[who]
      itemIndex == ItemIndex(inv, itemId)
      used == applyConsumableEffect(w, who, inv[itemIndex])
  IN IF itemIndex = 0 THEN addLogEntries(w, <<LogEntry("Item not found", who, 0)>>)
     ELSE IF inv[itemIndex].type = "CONSUMABLE"
          THEN [used EXCEPT !.inventory[who][itemIndex] = NullItem]
          ELSE w

\* handleFlee: random < 0.3 + max(0, speedDiff * 0.05)
handleFlee(w, rolls) ==
  LET who == w.cs.turn
      speedDiff == Combatant(w.cs, who).speed - Combatant(w.cs, Other(who)).speed
      fleePercent == BASE_FLEE_PERCENT + Max(0, speedDiff * 5)
  IN IF rolls.flee < fleePercent
     THEN [addLogEntries(w, <<LogEntry("fled from battle", who, 0)>>)
             EXCEPT !.cs.isActive = FALSE, !.cs.phase = "ENDED"]
     ELSE addLogEntries(w, <<LogEntry("could not escape", who, 0)>>)

\* an end check that lets a combatant stand at health 0
checkCombatEndBelowZero(w) ==
  IF w.cs.player.health < 0
  THEN [addLogEntries(w, <<LogEntry("has been defeated", "PLAYER", 0)>>)
          EXCEPT !.cs.isActive = FALSE, !.cs.phase = "ENDED"]
  ELSE IF w.cs.enemy.health < 0
       THEN [addLogEntries(w, <<LogEntry("has been defeated", "ENEMY", 0)>>)
               EXCEPT !.cs.isActive = FALSE, !.cs.phase = "REWARD"]
       ELSE w

\* checkCombatEnd
checkCombatEnd(w) ==
  IF w.cs.player.health <= 0
  THEN [addLogEntries(w, <<LogEntry("has been defeated", "PLAYER", 0)>>)
          EXCEPT !.cs.isActive = FALSE, !.cs.phase = "ENDED"]
  ELSE IF w.cs.enemy.health <= 0
       THEN [addLogEntries(w, <<LogEntry("has been defeated", "ENEMY", 0)>>)
               EXCEPT !.cs.isActive = FALSE, !.cs.phase = "REWARD"]
       ELSE w

\* a progression that counts a turn at every action
progressTurnCountingActions(w) ==
  IF w.cs.phase = "ATTACK"
  THEN [w EXCEPT !.cs.phase = "DEFEND", !.cs.turnCount = @ + 1]
  ELSE [w EXCEPT !.cs.turn = Other(@), !.cs.phase = "ATTACK", !.cs.turnCount = @ + 1]

\* progressTurn
progressTurn(w) ==
  IF w.cs.phase = "ATTACK"
  THEN [w EXCEPT !.cs.phase = "DEFEND"]
  ELSE [w EXCEPT !.cs.turn = Other(@), !.cs.phase = "ATTACK", !.cs.turnCount = @ + 1]

\* the switch of executeAction; an item action without an itemId does nothing
dispatchAction(w, action, rolls) ==
  CASE action.type = "attack" -> handleAttack(w, rolls)
    [] action.type = "defend" -> handleDefend(w)
    [] action.type = "item" -> IF action.itemId # "" THEN handleItemUse(w, action.itemId) ELSE w
    [] action.type = "flee" -> handleFlee(w, rolls)

\* an executeAction without the isActive guard
executeActionUnguarded(w, action, rolls) ==
  LET w0 == [w EXCEPT !.cs.combatLog = <<>>]
      w1 == IF w0.cs.phase = "ATTACK" THEN applyStatusEffects(w0) ELSE w0
      w2 == dispatchAction(w1, action, rolls)
      w3 == checkCombatEnd(w2)
  IN IF w3.cs.isActive THEN progressTurn(w3) ELSE w3

\* executeAction; w0 is w at the start of the call, nothing appended to the log yet
executeAction(w, action, rolls) ==
  LET w0 == [w EXCEPT !.cs.combatLog = <<>>]
      w1 == IF w0.cs.phase = "ATTACK" THEN applyStatusEffects(w0) ELSE w0
      w2 == dispatchAction(w1, action, rolls)
      w3 == checkCombatEnd(w2)
  IN IF ~w.cs.isActive THEN w
     ELSE IF w3.cs.isActive THEN progressTurn(w3) ELSE w3

\* rewards computed whatever the phase
getRewardsAnyPhase(c, r1, r2) ==
  LET baseExp == c.enemy.level * 10
      baseGold == c.enemy.level * 5
  IN [experience |-> baseExp + (r1 * baseExp) \div 100,
      gold |-> baseGold + (r2 * baseGold) \div 100,
      items |-> <<>>]

\* getRewards: experience and gold from the enemy's level, with two draws
getRewards(c, r1, r2) ==
  LET baseExp == c.enemy.level * 10
      baseGold == c.enemy.level * 5
  IN IF c.phase # "REWARD" THEN [experience |-> 0, gold |-> 0, items |-> <<>>]
     ELSE [experience |-> baseExp + (r1 * baseExp) \div 100,
           gold |-> baseGold + (r2 * baseGold) \div 100,
           items |-> <<>>]

\* ---------------------------------------------------------- LevelingSystem
BASE_EXP_REQUIREMENT == 100
HEALTH_PER_LEVEL == 10
ATTACK_PER_LEVEL == 2
DEFENSE_PER_LEVEL == 1
SPEED_PER_LEVEL == 1

\* floor(sqrt(n)), searched between lo and hi
RECURSIVE IsqrtBetween(_, _, _)
IsqrtBetween(n, lo, hi) ==
  IF lo >= hi THEN lo
  ELSE LET mid == (lo + hi + 1) \div 2
       IN IF mid * mid <= n THEN IsqrtBetween(n, mid, hi) ELSE IsqrtBetween(n, lo, mid - 1)

\* the search stops at 46340, the largest root of a 32-bit product
Isqrt(n) == IsqrtBetween(n, 0, Min(n, 46340))

\* getExperienceRequiredForLevel: floor(BASE * (level - 1)^1.5), and x^1.5 = sqrt(x^3)
getExperienceRequiredForLevel(level) ==
  IF level <= 1 THEN 0
  ELSE Isqrt(BASE_EXP_REQUIREMENT * BASE_EXP_REQUIREMENT
               * (level - 1) * (level - 1) * (level - 1))

\* a levelUp that keeps the threshold of the level it leaves
levelUpKeepsThreshold(ch, draws) ==
  [ch EXCEPT !.level = @ + 1,
             !.maxHealth = @ + HEALTH_PER_LEVEL + (draws[1] * 5) \div 100,
             !.health = @ + HEALTH_PER_LEVEL + (draws[1] * 5) \div 100,
             !.attack = @ + ATTACK_PER_LEVEL + (draws[2] * 2) \div 100,
             !.defense = @ + DEFENSE_PER_LEVEL + (draws[3] * 2) \div 100,
             !.speed = @ + SPEED_PER_LEVEL + (IF draws[4] < 30 THEN 1 ELSE 0),
             !.experience = @ - ch.experienceToNext]

\* a levelUp that computes the new threshold before it takes the old one off
levelUpSubtractsNewThreshold(ch, draws) ==
  LET toNext == getExperienceRequiredForLevel(ch.level + 2)
                  - getExperienceRequiredForLevel(ch.level + 1)
  IN [ch EXCEPT !.level = @ + 1,
                !.maxHealth = @ + HEALTH_PER_LEVEL,
                !.health = @ + HEALTH_PER_LEVEL,
                !.attack = @ + ATTACK_PER_LEVEL,
                !.defense = @ + DEFENSE_PER_LEVEL,
                !.speed = @ + SPEED_PER_LEVEL,
                !.experience = @ - toNext,
                !.experienceToNext = toNext]

\* levelUp; draws = <<health, attack, defense, speed>> rolls of the four random gains
levelUp(ch, draws) ==
  LET healthGain == HEALTH_PER_LEVEL + (draws[1] * 5) \div 100
      attackGain == ATTACK_PER_LEVEL + (draws[2] * 2) \div 100
      defenseGain == DEFENSE_PER_LEVEL + (draws[3] * 2) \div 100
      speedGain == SPEED_PER_LEVEL + (IF draws[4] < 30 THEN 1 ELSE 0)
  IN [ch EXCEPT !.level = @ + 1,
                !.maxHealth = @ + healthGain,
                !.health = @ + healthGain,
                !.attack = @ + attackGain,
                !.defense = @ + defenseGain,
                !.speed = @ + speedGain,
                !.experience = @ - ch.experienceToNext,
                !.experienceToNext = getExperienceRequiredForLevel(ch.level + 2)
                                       - getExperienceRequiredForLevel(ch.level + 1)]

\* a loop of addExperience that stops when the experience equals the threshold
RECURSIVE addExperienceLoopStrict(_, _, _)
addExperienceLoopStrict(ch, drawSeq, i) ==
  IF ch.experience > ch.experienceToNext
  THEN addExperienceLoopStrict(levelUp(ch, drawSeq[Min(i, Len(drawSeq))]), drawSeq, i + 1)
  ELSE ch

addExperienceStrict(ch, expGained, drawSeq) ==
  addExperienceLoopStrict([ch EXCEPT !.experience = @ + expGained], drawSeq, 1)

\* the while loop of addExperience; the i-th level-up uses drawSeq[i] (the last
\* element again once the sequence is used up)
RECURSIVE addExperienceLoop(_, _, _)
addExperienceLoop(ch, drawSeq, i) ==
  IF ch.experience >= ch.experienceToNext
  THEN addExperienceLoop(levelUp(ch, drawSeq[Min(i, Len(drawSeq))]), drawSeq, i + 1)
  ELSE ch

\* addExperience
addExperience(ch, expGained, drawSeq) ==
  addExperienceLoop([ch EXCEPT !.experience = @ + expGained], drawSeq, 1)

\* getTotalExperience: the experience held plus the cost of every level passed
RECURSIVE PassedLevels(_, _)
PassedLevels(level, upTo) ==
  IF level >= upTo THEN 0
  ELSE getExperienceRequiredForLevel(level + 1) - getExperienceRequiredForLevel(level)
         + PassedLevels(level + 1, upTo)

getTotalExperience(ch) == ch.experience + PassedLevels(1, ch.level)

\* levelUpResults of addExperience: the newLevel of the result pushed by each
\* iteration of the while loop
RECURSIVE levelUpResults(_, _, _)
levelUpResults(ch, drawSeq, i) ==
  IF ch.experience >= ch.experienceToNext
  THEN <<ch.level + 1>>
         \o levelUpResults(levelUp(ch, drawSeq[Min(i, Len(drawSeq))]), drawSeq, i + 1)
  ELSE <<>>

\* the array addExperience returns
addExperienceResults(ch, expGained, drawSeq) ==
  levelUpResults([ch EXCEPT !.experience = @ + expGained], drawSeq, 1)

\* createCharacter(name, level)
createCharacter(level) ==
  LET health == 100 + (level - 1) * HEALTH_PER_LEVEL
  IN Character(health, health,
               10 + (level - 1) * ATTACK_PER_LEVEL,
               5 + (level - 1) * DEFENSE_PER_LEVEL,
               10 + (level - 1) * SPEED_PER_LEVEL,
               level, 0,
               getExperienceRequiredForLevel(level + 1) - getExperienceRequiredForLevel(level),
               0)

\* floor(stat * scaleFactor) with scaleFactor = 1 + levelDifference * 0.1; the
\* product is computed in tenths, which is what the floating point computation gives
\* when levelDifference is a multiple of 5 (the factor is then a multiple of 0.5)
scaled(stat, levelDifference) == (stat * (10 + levelDifference)) \div 10

\* scaleEnemyToLevel(baseEnemy, targetLevel)
scaleEnemyToLevel(baseEnemy, targetLevel) ==
  LET levelDifference == targetLevel - baseEnemy.level
  IN [baseEnemy EXCEPT !.level = targetLevel,
                       !.maxHealth = scaled(baseEnemy.maxHealth, levelDifference),
                       !.health = scaled(baseEnemy.maxHealth, levelDifference),
                       !.attack = scaled(baseEnemy.attack, levelDifference),
                       !.defense = scaled(baseEnemy.defense, levelDifference),
                       !.speed = scaled(baseEnemy.speed, levelDifference),
                       !.gold = scaled(baseEnemy.gold, levelDifference)]

\* ------------------------------------------------------ StatusEffectManager
\* the factories of StatusEffectManager
createPoison(power, duration) == Effect("Poison", "POISON", duration, power)
createRegeneration(power, duration) == Effect("Regeneration", "REGENERATION", duration, power)
createStun(duration) == Effect("Stun", "STUN", duration, 0)
createGrowth(duration) == Effect("Growth", "GROWTH", duration, 1)
createAttackBoost(power, duration) == Effect("Attack Boost", "ENCHANT_ATTACK", duration, power)
createDefenseBoost(power, duration) == Effect("Defense Boost", "ENCHANT_DEFENSE", duration, power)

\* the push of a copy of effect onto the statusEffects array of the original character
pushCopy(w, who, effect) ==
  [w EXCEPT !.effects[who] = Append(@, [effect EXCEPT !.inOrig = TRUE,
                                                      !.inComb = w.sameArr[who]])]

\* an applyEffect that pushes a copy whatever the array holds
applyEffectAlwaysPushes(w, who, effect) == pushCopy(w, who, effect)

\* an applyEffect whose enchants are replaced by an incoming one of equal power too
applyEffectReplacesOnEqual(w, who, effect) ==
  LET cells == w.effects[who]
      existingEffectIndex == FindIndex({k \in DOMAIN cells :
             cells[k].inOrig /\ cells[k].type = effect.type /\ cells[k].name = effect.name})
      existingEffect == cells[existingEffectIndex]
  IN IF existingEffectIndex = 0 THEN pushCopy(w, who, effect)
     ELSE CASE effect.type \in {"POISON", "REGENERATION"} ->
                 [w EXCEPT !.effects[who][existingEffectIndex].power = @ + effect.power,
                           !.effects[who][existingEffectIndex].duration =
                               Max(@, effect.duration)]
            [] effect.type \in {"ENCHANT_ATTACK", "ENCHANT_DEFENSE", "ENCHANT_SPEED"} ->
                 IF effect.power >= existingEffect.power
                 THEN [w EXCEPT !.effects[who][existingEffectIndex].power = effect.power,
                                !.effects[who][existingEffectIndex].duration = effect.duration]
                 ELSE [w EXCEPT !.effects[who][existingEffectIndex].duration =
                                    Max(@, effect.duration)]
            [] effect.type = "STUN" ->
                 [w EXCEPT !.effects[who][existingEffectIndex].duration =
                               Max(@, effect.duration)]
            [] effect.type = "GROWTH" -> pushCopy(w, who, effect)
            [] OTHER -> w

\* StatusEffectManager.applyEffect(character, effect), for the original character who
applyEffect(w, who, effect) ==
  LET cells == w.effects[who]
      existingEffectIndex == FindIndex({k \in DOMAIN cells :
             cells[k].inOrig /\ cells[k].type = effect.type /\ cells[k].name = effect.name})
      existingEffect == cells[existingEffectIndex]
  IN IF existingEffectIndex = 0 THEN pushCopy(w, who, effect)
     ELSE CASE effect.type \in {"POISON", "REGENERATION"} ->
                 [w EXCEPT !.effects[who][existingEffectIndex].power = @ + effect.power,
                           !.effects[who][existingEffectIndex].duration =
                               Max(@, effect.duration)]
            [] effect.type \in {"ENCHANT_ATTACK", "ENCHANT_DEFENSE", "ENCHANT_SPEED"} ->
                 IF effect.power > existingEffect.power
                 THEN [w EXCEPT !.effects[who][existingEffectIndex].power = effect.power,
                                !.effects[who][existingEffectIndex].duration = effect.duration]
                 ELSE [w EXCEPT !.effects[who][existingEffectIndex].duration =
                                    Max(@, effect.duration)]
            [] effect.type = "STUN" ->
                 [w EXCEPT !.effects[who][existingEffectIndex].duration =
                               Max(@, effect.duration)]
            [] effect.type = "GROWTH" -> pushCopy(w, who, effect)
            [] OTHER -> w

\* one entry of the results of processTurnEffects
Result(name, result, value) == [effect |-> name, result |-> result, value |-> value]

\* a filter callback that drops an effect with one turn still to run
LedgerEffectDropsEarly(st, c) ==
  LET ch == st.ch
      actualHeal == Min(c.power, ch.maxHealth - ch.health)
      ch2 == CASE c.type = "POISON" -> [ch EXCEPT !.health = Max(0, @ - c.power)]
               [] c.type = "REGENERATION" -> [ch EXCEPT !.health = @ + actualHeal]
               [] c.type = "GROWTH" ->
                    [ch EXCEPT !.maxHealth = @ + 2, !.health = @ + 2, !.attack = @ + 1]
               [] OTHER -> ch
      d == c.duration - 1
      c2 == [c EXCEPT !.duration = d, !.inOrig = (d > 1)]
  IN [ch |-> ch2,
      results |-> st.results
                    \o (IF d <= 1 THEN <<Result(c.name, "has worn off", 0)>> ELSE <<>>),
      cells |-> IF c2.inComb \/ c2.inOrig THEN Append(st.cells, c2) ELSE st.cells]

\* the filter callback of processTurnEffects for one effect object c of the
\* character's own array; st carries the character, the results and the cells kept
LedgerEffect(st, c) ==
  LET ch == st.ch
      actualHeal == Min(c.power, ch.maxHealth - ch.health)
      ch2 == CASE c.type = "POISON" -> [ch EXCEPT !.health = Max(0, @ - c.power)]
               [] c.type = "REGENERATION" -> [ch EXCEPT !.health = @ + actualHeal]
               [] c.type = "GROWTH" ->
                    [ch EXCEPT !.maxHealth = @ + 2, !.health = @ + 2, !.attack = @ + 1]
               [] OTHER -> ch
      acted == CASE c.type = "POISON" -> <<Result(c.name, "takes poison damage", -c.power)>>
                 [] c.type = "REGENERATION" -> <<Result(c.name, "regenerates health", actualHeal)>>
                 [] c.type = "GROWTH" -> <<Result(c.name, "grows stronger", 2)>>
                 [] c.type = "STUN" -> <<Result(c.name, "is stunned", 0)>>
                 [] OTHER -> <<>>
      d == c.duration - 1
      c2 == [c EXCEPT !.duration = d, !.inOrig = (d > 0)]
  IN [ch |-> ch2,
      results |-> st.results \o acted
                    \o (IF d <= 0 THEN <<Result(c.name, "has worn off", 0)>> ELSE <<>>),
      cells |-> IF c2.inComb \/ c2.inOrig THEN Append(st.cells, c2) ELSE st.cells]

RECURSIVE LedgerFold(_, _, _)
LedgerFold(cells, i, st) ==
  IF i > Len(cells) THEN st
  ELSE IF cells[i].inOrig
       THEN LedgerFold(cells, i + 1, LedgerEffect(st, cells[i]))
       ELSE LedgerFold(cells, i + 1, [st EXCEPT !.cells = Append(@, cells[i])])

\* the walk of processTurnEffects over the character's array
LedgerWalk(w, who) ==
  LedgerFold(w.effects[who], 1, [ch |-> w.chars[who], results |-> <<>>, cells |-> <<>>])

\* StatusEffectManager.processTurnEffects(character), for the original character who
processTurnEffects(w, who) ==
  LET st == LedgerWalk(w, who)
  IN [w EXCEPT !.chars[who] = st.ch, !.effects[who] = st.cells, !.sameArr[who] = FALSE]

\* the results that processTurnEffects returns
processTurnResults(w, who) == LedgerWalk(w, who).results

\* -------------------------------------------------------- InventoryManager
\* removeItem(inventory, itemId): the first slot holding that id is emptied
removeItem(slots, itemId) ==
  LET itemIndex == ItemIndex(slots, itemId)
  IN IF itemIndex = 0 THEN slots ELSE [slots EXCEPT ![itemIndex] = NullItem]

\* useConsumable: false for an item without stats; else heal and remove
useConsumable(w, who, item) ==
  IF ~item.hasStats THEN w
  ELSE [w EXCEPT !.chars[who].health =
                    IF item.health # 0 THEN Min(w.chars[who].maxHealth, @ + item.health) ELSE @,
                 !.inventory[who] = removeItem(@, item.id)]

\* equipItem: swaps newItem with the first other item of its type
equipItem(w, who, newItem) ==
  LET slots == w.inventory[who]
      currentIndex == FindIndex({i \in DOMAIN slots :
                        /\ slots[i].id # "null"
                        /\ slots[i].type = newItem.type
                        /\ slots[i].id # newItem.id})
      newItemIndex == ItemIndex(slots, newItem.id)
      \* findIndex(i => i?.id === currentEquipped.id)
      currentById == ItemIndex(slots, slots[currentIndex].id)
  IN IF currentIndex # 0 /\ newItemIndex # 0 /\ currentById # 0
     THEN [w EXCEPT !.inventory[who] =
             [slots EXCEPT ![newItemIndex] = slots[currentById],
                           ![currentById] = slots[newItemIndex]]]
     ELSE w

\* InventoryManager.useItem(character, itemId), for the original character who
useItem(w, who, itemId) ==
  LET slots == w.inventory[who]
      i == ItemIndex(slots, itemId)
  IN IF i = 0 THEN w
     ELSE CASE slots[i].type = "CONSUMABLE" -> useConsumable(w, who, slots[i])
            [] slots[i].type \in {"WEAPON", "ARMOR"} -> equipItem(w, who, slots[i])
            [] OTHER -> w

\* what InventoryManager.useItem returns
useItemReturns(w, who, itemId) ==
  LET slots == w.inventory[who]
      i == ItemIndex(slots, itemId)
  IN IF i = 0 THEN FALSE
     ELSE CASE slots[i].type = "CONSUMABLE" -> slots[i].hasStats
            [] slots[i].type \in {"WEAPON", "ARMOR"} -> TRUE
            [] OTHER -> FALSE

\* items.findIndex(slot => slot === null)
EmptySlotIndex(slots) == FindIndex({i \in DOMAIN slots : slots[i] = NullItem})

\* an addItem that takes the last empty slot
addItemLastSlot(slots, item) ==
  LET empty == {i \in DOMAIN slots : slots[i] = NullItem}
  IN IF empty = {} THEN slots
     ELSE [slots EXCEPT ![CHOOSE i \in empty : \A j \in empty : j <= i] = item]

\* addItem(inventory, item): the items array afterwards
addItem(slots, item) ==
  LET emptySlotIndex == EmptySlotIndex(slots)
  IN IF emptySlotIndex = 0 THEN slots ELSE [slots EXCEPT ![emptySlotIndex] = item]

\* what addItem returns
addItemReturns(slots, item) == EmptySlotIndex(slots) # 0

\* what removeItem returns: the removed item, NullItem for null
removeItemReturns(slots, itemId) ==
  LET itemIndex == ItemIndex(slots, itemId)
  IN IF itemIndex = 0 THEN NullItem ELSE slots[itemIndex]

\* dropItemAtSlot(inventory, slotIndex), slotIndex counted from 0 as in the source
dropItemAtSlot(slots, slotIndex) ==
  IF slotIndex < 0 \/ slotIndex >= MAX_INVENTORY_SLOTS THEN slots
  ELSE [slots EXCEPT ![slotIndex + 1] = NullItem]

\* what dropItemAtSlot returns
dropItemAtSlotReturns(slots, slotIndex) ==
  IF slotIndex < 0 \/ slotIndex >= MAX_INVENTORY_SLOTS THEN NullItem
  ELSE slots[slotIndex + 1]

\* getEquippedWeapon / getEquippedArmor: the item, NullItem for null
getEquippedWeapon(slots) ==
  IF WeaponIndex(slots) = 0 THEN NullItem ELSE slots[WeaponIndex(slots)]

getEquippedArmor(slots) ==
  IF ArmorIndex(slots) = 0 THEN NullItem ELSE slots[ArmorIndex(slots)]

\* getFilledSlots and hasSpace
getFilledSlots(slots) == Cardinality({i \in DOMAIN slots : slots[i] # NullItem})

hasSpace(slots) == getFilledSlots(slots) < MAX_INVENTORY_SLOTS

\* the sortOrder and rarityOrder tables of sortInventory
TypeOrder(type) ==
  CASE type = "WEAPON" -> 0 [] type = "ARMOR" -> 1 [] type = "CONSUMABLE" -> 2
    [] type = "TREASURE" -> 3 [] OTHER -> 4

RarityOrder(rarity) ==
  CASE rarity = "LEGENDARY" -> 0 [] rarity = "EPIC" -> 1 [] rarity = "RARE" -> 2
    [] rarity = "UNCOMMON" -> 3 [] OTHER -> 4

\* the comparator of sortInventory is negative for (a, b)
SortsBefore(a, b) ==
  \/ TypeOrder(a.type) < TypeOrder(b.type)
  \/ TypeOrder(a.type) = TypeOrder(b.type) /\ RarityOrder(a.rarity) < RarityOrder(b.rarity)

\* Array.prototype.sort is stable: item goes behind everything that does not sort
\* after it
RECURSIVE InsertSorted(_, _)
InsertSorted(sorted, item) ==
  IF sorted = <<>> THEN <<item>>
  ELSE IF SortsBefore(item, Head(sorted)) THEN <<item>> \o sorted
       ELSE <<Head(sorted)>> \o InsertSorted(Tail(sorted), item)

RECURSIVE SortItems(_)
SortItems(items) ==
  IF items = <<>> THEN <<>>
  ELSE InsertSorted(SortItems(SubSeq(items, 1, Len(items) - 1)), items[Len(items)])

\* a sortInventory that does not pad with nulls
sortInventoryUnpadded(slots) == SortItems(SelectSeq(slots, LAMBDA item : item # NullItem))

\* sortInventory(inventory): the sorted items, then nulls up to maxSlots
sortInventory(slots) ==
  LET items == SortItems(SelectSeq(slots, LAMBDA item : item # NullItem))
  IN items \o [i \in 1..(MAX_INVENTORY_SLOTS - Len(items)) |-> NullItem]

\* ---------------------------------------------------------- TreasureSystem
\* a TreasureChest
Chest(position, items, gold) ==
  [position |-> position, items |-> items, gold |-> gold, opened |-> FALSE]

\* the forEach of openTreasureChest from the i-th chest item on: st carries the
\* items array and the obtained and dropped lists
RECURSIVE ChestFold(_, _, _)
ChestFold(items, i, st) ==
  IF i > Len(items) THEN st
  ELSE LET emptySlot == EmptySlotIndex(st.slots)
       IN IF emptySlot # 0
          THEN ChestFold(items, i + 1,
                 [st EXCEPT !.slots[emptySlot] = items[i], !.obtained = Append(@, items[i])])
          ELSE ChestFold(items, i + 1, [st EXCEPT !.dropped = Append(@, items[i])])

ChestWalk(w, c) ==
  ChestFold(w.gc.treasureChests[c].items, 1,
            [slots |-> w.inventory.PLAYER, obtained |-> <<>>, dropped |-> <<>>])

\* an openTreasureChest that does not look at the opened flag
openTreasureChestAgain(w, c) ==
  [w EXCEPT !.gc.treasureChests[c].opened = TRUE,
            !.chars.PLAYER.gold = @ + w.gc.treasureChests[c].gold,
            !.inventory.PLAYER = ChestWalk(w, c).slots]

\* an openTreasureChest that pays the gold only into an inventory with space
openTreasureChestGoldNeedsSpace(w, c) ==
  IF w.gc.treasureChests[c].opened THEN w
  ELSE [w EXCEPT !.gc.treasureChests[c].opened = TRUE,
                 !.chars.PLAYER.gold =
                    IF hasSpace(w.inventory.PLAYER) THEN @ + w.gc.treasureChests[c].gold ELSE @,
                 !.inventory.PLAYER = ChestWalk(w, c).slots]

\* openTreasureChest(chest, character) for the c-th chest and the player
openTreasureChest(w, c) ==
  IF w.gc.treasureChests[c].opened THEN w
  ELSE [w EXCEPT !.gc.treasureChests[c].opened = TRUE,
                 !.chars.PLAYER.gold = @ + w.gc.treasureChests[c].gold,
                 !.inventory.PLAYER = ChestWalk(w, c).slots]

\* what openTreasureChest returns
openTreasureChestReturns(w, c) ==
  IF w.gc.treasureChests[c].opened THEN [items |-> <<>>, gold |-> 0, dropped |-> <<>>]
  ELSE [items |-> ChestWalk(w, c).obtained,
        gold |-> w.gc.treasureChests[c].gold,
        dropped |-> ChestWalk(w, c).dropped]

\* RARITY_WEIGHTS, and the order in which rollRarity walks the rarities
RARITY_WEIGHTS ==
  [COMMON |-> 50, UNCOMMON |-> 30, RARE |-> 15, EPIC |-> 4, LEGENDARY |-> 1]

Rarities == <<"LEGENDARY", "EPIC", "RARE", "UNCOMMON", "COMMON">>

\* the loop of a rollRarity that returns on roll < 0
RECURSIVE RarityLoopStrict(_, _, _)
RarityLoopStrict(level, halves, i) ==
  IF i > Len(Rarities) THEN [rarity |-> "COMMON", inLoop |-> FALSE]
  ELSE LET left == halves - 2 * (RARITY_WEIGHTS[Rarities[i]]
                                   + (IF Rarities[i] = "LEGENDARY" THEN level * 2 ELSE 0))
       IN IF left < 0 THEN [rarity |-> Rarities[i], inLoop |-> TRUE]
          ELSE RarityLoopStrict(level, left, i + 1)

RarityWalkStrict(level, halves) == RarityLoopStrict(level, halves, 1)

\* the for loop of rollRarity from the i-th rarity on; the roll is counted in halves
\* (halves = 2 * roll), so that rolls between two whole numbers exist; inLoop says
\* whether the return was the one inside the loop
RECURSIVE RarityLoop(_, _, _)
RarityLoop(level, halves, i) ==
  IF i > Len(Rarities) THEN [rarity |-> "COMMON", inLoop |-> FALSE]
  ELSE LET left == halves - 2 * (RARITY_WEIGHTS[Rarities[i]]
                                   + (IF Rarities[i] = "LEGENDARY" THEN level * 2 ELSE 0))
       IN IF left <= 0 THEN [rarity |-> Rarities[i], inLoop |-> TRUE]
          ELSE RarityLoop(level, left, i + 1)

RarityWalk(level, halves) == RarityLoop(level, halves, 1)

\* rollRarity(level), for the draw Math.random() * (totalWeight + levelBonus) = halves / 2
rollRarity(level, halves) == RarityWalk(level, halves).rarity

\* rollItemType, for the draw Math.random() * totalWeight = roll
rollItemType(roll) ==
  IF roll <= 25 THEN "WEAPON"
  ELSE IF roll <= 50 THEN "ARMOR"
       ELSE IF roll <= 85 THEN "CONSUMABLE" ELSE "TREASURE"

\* twice the rarityMultiplier of weapons, armor and consumables
Multiplier2(rarity) ==
  CASE rarity = "COMMON" -> 2 [] rarity = "UNCOMMON" -> 3 [] rarity = "RARE" -> 4
    [] rarity = "EPIC" -> 6 [] rarity = "LEGENDARY" -> 10

\* the rarityMultiplier of treasures
TreasureMultiplier(rarity) ==
  CASE rarity = "COMMON" -> 1 [] rarity = "UNCOMMON" -> 3 [] rarity = "RARE" -> 10
    [] rarity = "EPIC" -> 30 [] rarity = "LEGENDARY" -> 100

\* Math.floor(base * rarityMultiplier[rarity])
Times(base, rarity) == (base * Multiplier2(rarity)) \div 2

\* generateWeapon; id stands for the fresh id, bonus for the drawn speed of an epic
\* or legendary weapon
generateWeapon(id, level, rarity, bonus) ==
  [NullItem EXCEPT !.id = id, !.type = "WEAPON", !.rarity = rarity, !.hasStats = TRUE,
                   !.attack = Times(5 + level * 2, rarity),
                   !.speed = IF rarity \in {"EPIC", "LEGENDARY"} THEN bonus ELSE 0,
                   !.hasDurability = TRUE,
                   !.durability = Times(20 + level * 5, rarity),
                   !.maxDurability = Times(20 + level * 5, rarity),
                   !.value = Times(50 + level * 10, rarity)]

\* generateArmor; bonus + 9 stands for the drawn health of an epic or legendary armor
generateArmor(id, level, rarity, bonus) ==
  [NullItem EXCEPT !.id = id, !.type = "ARMOR", !.rarity = rarity, !.hasStats = TRUE,
                   !.defense = Times(3 + level, rarity),
                   !.health = IF rarity \in {"EPIC", "LEGENDARY"} THEN bonus + 9 ELSE 0,
                   !.hasDurability = TRUE,
                   !.durability = Times(30 + level * 5, rarity),
                   !.maxDurability = Times(30 + level * 5, rarity),
                   !.value = Times(40 + level * 8, rarity)]

\* generateConsumable; stat is the stat of the drawn consumable type
generateConsumable(id, level, rarity, stat) ==
  LET statValue == Times((IF stat = "health" THEN 20 ELSE 5) + level * 2, rarity)
  IN [NullItem EXCEPT !.id = id, !.type = "CONSUMABLE", !.rarity = rarity,
                      !.hasStats = TRUE,
                      !.health = IF stat = "health" THEN statValue ELSE 0,
                      !.attack = IF stat = "attack" THEN statValue ELSE 0,
                      !.defense = IF stat = "defense" THEN statValue ELSE 0,
                      !.speed = IF stat = "speed" THEN statValue ELSE 0,
                      !.value = Times(10 + level * 5, rarity)]

\* generateTreasure
generateTreasure(id, level, rarity) ==
  [NullItem EXCEPT !.id = id, !.type = "TREASURE", !.rarity = rarity,
                   !.value = (100 + level * 20) * TreasureMultiplier(rarity)]

\* generateRandomItem; draw = [rarity, type, stat, bonus] holds its random draws
generateRandomItem(id, level, draw) ==
  LET rarity == rollRarity(level, draw.rarity)
      type == rollItemType(draw.type)
  IN CASE type = "WEAPON" -> generateWeapon(id, level, rarity, draw.bonus)
       [] type = "ARMOR" -> generateArmor(id, level, rarity, draw.bonus)
       [] type = "CONSUMABLE" -> generateConsumable(id, level, rarity, draw.stat)
       [] OTHER -> generateTreasure(id, level, rarity)

\* the fresh ids of the items of one shop
ShopIds == <<"shop-1", "shop-2", "shop-3", "shop-4", "shop-5", "shop-6", "shop-7">>

\* the items of generateShopInventory before the markup; draws[i] holds the random
\* draws of the i-th item
ShopItems(level, itemCount, draws) ==
  LET guaranteed ==
        <<generateWeapon(ShopIds[1], level, rollRarity(level, draws[1].rarity), draws[1].bonus),
          generateArmor(ShopIds[2], level, rollRarity(level, draws[2].rarity), draws[2].bonus),
          generateConsumable(ShopIds[3], level, "COMMON", draws[3].stat),
          generateConsumable(ShopIds[4], level, "UNCOMMON", draws[4].stat)>>
  IN guaranteed \o [k \in 1..(itemCount - 4) |->
                      generateRandomItem(ShopIds[4 + k], level, draws[4 + k])]

\* a shop whose guaranteed items count as already marked up
generateShopInventoryRandomOnly(level, itemCount, draws) ==
  LET items == ShopItems(level, itemCount, draws)
  IN [i \in 1..Len(items) |->
        IF i <= 4 THEN items[i] ELSE [items[i] EXCEPT !.value = (@ * 3) \div 2]]

\* generateShopInventory(level, itemCount): every value becomes floor(value * 1.5)
generateShopInventory(level, itemCount, draws) ==
  LET items == ShopItems(level, itemCount, draws)
  IN [i \in 1..Len(items) |-> [items[i] EXCEPT !.value = (@ * 3) \div 2]]

\* calculateSellPrice: floor(value * 0.5), then floor(sellPrice * durability /
\* maxDurability) for an item with a durability and a non-zero maxDurability
calculateSellPrice(item) ==
  LET sellPrice == item.value \div 2
  IN IF item.hasDurability /\ item.maxDurability # 0
     THEN Max(1, (sellPrice * item.durability) \div item.maxDurability)
     ELSE Max(1, sellPrice)

\* getEffectiveStats(character): the bonuses of every usable weapon and armor of the
\* inventory, and the powers of the enchants; stats.attack || 0 is the attack field
RECURSIVE EquipmentBonus(_, _, _)
EquipmentBonus(slots, i, stat) ==
  IF i > Len(slots) THEN 0
  ELSE LET item == slots[i]
           weapon == item.type = "WEAPON" /\ item.hasDurability /\ item.durability > 0
           armor == item.type = "ARMOR" /\ item.hasDurability /\ item.durability > 0
           bonus == IF item.id = "null" \/ ~item.hasStats THEN 0
                    ELSE IF weapon
                         THEN (CASE stat = "attack" -> item.attack
                                 [] stat = "speed" -> item.speed [] OTHER -> 0)
                         ELSE IF armor
                              THEN (CASE stat = "defense" -> item.defense
                                      [] stat = "speed" -> item.speed [] OTHER -> 0)
                              ELSE 0
       IN bonus + EquipmentBonus(slots, i + 1, stat)

getEffectiveStats(character, slots, arr) ==
  [attack |-> character.attack + EquipmentBonus(slots, 1, "attack")
                + SumPower(arr, "ENCHANT_ATTACK"),
   defense |-> character.defense + EquipmentBonus(slots, 1, "defense")
                 + SumPower(arr, "ENCHANT_DEFENSE"),
   speed |-> character.speed + EquipmentBonus(slots, 1, "speed")
               + SumPower(arr, "ENCHANT_SPEED")]

\* the totals of calculateDamage: damage before the critical factor for a character
\* that attacks, defense for the same character when it defends, and the speed its
\* dodge and critical chances (and handleFlee) read
combatTotals(character, slots, arr) ==
  LET wi == WeaponIndex(slots)
      ai == ArmorIndex(slots)
  IN [attack |-> character.attack + (IF wi # 0 THEN slots[wi].attack ELSE 0)
                   + SumPower(arr, "ENCHANT_ATTACK"),
      defense |-> character.defense + (IF ai # 0 THEN slots[ai].defense ELSE 0)
                    + SumPower(arr, "ENCHANT_DEFENSE"),
      speed |-> character.speed]

\* ---------------------------------------------------------- GameController
\* startCombat(enemy): a new engine over gameState.player and the enemy; the
\* objects that only the previous engine referred to are garbage
startCombat(w, enemy, enemyInventory, enemyEffects, r1, r2) ==
  LET kept == SelectSeq(w.effects.PLAYER, LAMBDA c : c.inOrig)
      shared == [i \in 1..Len(kept) |-> [kept[i] EXCEPT !.inComb = TRUE]]
  IN [w EXCEPT !.chars.ENEMY = enemy,
               !.cs = NewCombatState(w.chars.PLAYER, enemy, r1, r2),
               !.inventory.ENEMY = enemyInventory,
               !.effects = [PLAYER |-> shared, ENEMY |-> enemyEffects],
               !.sameArr = [PLAYER |-> TRUE, ENEMY |-> TRUE],
               !.gc = [combatEngine |-> TRUE, currentCombat |-> "snapshot"]]

\* the action executeEnemyAI chooses, from the enemy of currentCombat and one draw
enemyAIAction(w, rand) ==
  LET enemy == w.cs.enemy
      hi == FindIndex({i \in DOMAIN w.inventory.ENEMY :
              LET it == w.inventory.ENEMY[i]
              IN it.id # "null" /\ it.type = "CONSUMABLE" /\ it.hasStats /\ it.health # 0})
  IN IF 10 * enemy.health < 3 * enemy.maxHealth
     THEN IF hi # 0 THEN [type |-> "item", itemId |-> w.inventory.ENEMY[hi].id]
          ELSE [type |-> "defend", itemId |-> ""]
     ELSE IF rand < 70 THEN [type |-> "attack", itemId |-> ""]
          ELSE IF rand < 90 THEN [type |-> "defend", itemId |-> ""]
          ELSE [type |-> "flee", itemId |-> ""]

\* executeEnemyAI
executeEnemyAI(w, rand, rolls) ==
  IF ~w.gc.combatEngine \/ w.gc.currentCombat = "null" THEN w
  ELSE [executeAction(w, enemyAIAction(w, rand), rolls) EXCEPT !.gc.currentCombat = "live"]

\* handleCombatEnd: rewards after a victory, then the engine is dropped
handleCombatEnd(w, r1, r2, drawSeq) ==
  LET rewards == getRewards(w.cs, r1, r2)
      levelled == addExperience(w.chars.PLAYER, rewards.experience, drawSeq)
      paid == [levelled EXCEPT !.gold = @ + rewards.gold]
      rewarded == IF w.cs.phase = "REWARD" THEN [w EXCEPT !.chars.PLAYER = paid] ELSE w
  IN IF ~w.gc.combatEngine \/ w.gc.currentCombat = "null" THEN w
     ELSE [rewarded EXCEPT !.gc = [combatEngine |-> FALSE, currentCombat |-> "null"]]

\* isPlayerTurn
isPlayerTurn(c) == c.turn = "PLAYER" /\ c.isActive

\* executeCombatAction, in its three steps.  Each keeps the handler's guard: without
\* an engine nothing happens.
\* 1: this.gameState.currentCombat = this.combatEngine.executeAction(action)
playerAction(w, action, rolls) ==
  IF ~w.gc.combatEngine \/ w.gc.currentCombat = "null" THEN w
  ELSE [executeAction(w, action, rolls) EXCEPT !.gc.currentCombat = "live"]

\* whether step 2 runs: the encounter is active and it is not the player's turn
enemyActs(w) == w.gc.combatEngine /\ w.cs.isActive /\ ~isPlayerTurn(w.cs)

\* 2: if (currentCombat.isActive && !isPlayerTurn()) executeEnemyAI()
enemyResponse(w, rand, airolls) ==
  IF enemyActs(w) THEN executeEnemyAI(w, rand, airolls) ELSE w

\* 3: if (!currentCombat.isActive) handleCombatEnd()
combatEndCheck(w, r1, r2, drawSeq) ==
  IF w.gc.combatEngine /\ ~w.cs.isActive THEN handleCombatEnd(w, r1, r2, drawSeq) ELSE w

\* movePlayer(newPosition): the first unopened chest at the position is opened
movePlayer(w, newPosition) ==
  LET chests == w.gc.treasureChests
      c == FindIndex({i \in DOMAIN chests :
             ~chests[i].opened /\ chests[i].position = newPosition})
      moved == [w EXCEPT !.gc.position = newPosition]
  IN IF c # 0 THEN openTreasureChest(moved, c) ELSE moved

\* buyItem(item)
buyItem(w, item) ==
  IF w.chars.PLAYER.gold < item.value THEN w
  ELSE IF ~hasSpace(w.inventory.PLAYER) THEN w
       ELSE [w EXCEPT !.chars.PLAYER.gold = @ - item.value,
                      !.inventory.PLAYER = addItem(@, item)]

buyItemReturns(w, item) ==
  IF w.chars.PLAYER.gold < item.value THEN FALSE
  ELSE IF ~hasSpace(w.inventory.PLAYER) THEN FALSE
       ELSE addItemReturns(w.inventory.PLAYER, item)

\* sellItem(itemId)
sellItem(w, itemId) ==
  LET item == removeItemReturns(w.inventory.PLAYER, itemId)
  IN IF item = NullItem THEN w
     ELSE [w EXCEPT !.inventory.PLAYER = removeItem(@, itemId),
                    !.chars.PLAYER.gold = @ + calculateSellPrice(item)]

sellItemReturns(w, itemId) == removeItemReturns(w.inventory.PLAYER, itemId) # NullItem

\* ------------------------------------------------------------ the inputs
\* LevelingSystem.createCharacter('Hero', 1): 100/100 health, attack 10, defense 5, speed 10
Hero == Character(100, 100, 10, 5, 10, 1, 0, 100, 50)
\* the same hero, wounded
WoundedHero == Character(3, 100, 10, 5, 10, 1, 95, 100, 50)
\* an opponent of 40 health, defense 6 and speed 8
Bandit == Character(40, 40, 4, 6, 8, 1, 0, 100, 0)
WoundedBandit == Character(7, 40, 4, 6, 8, 1, 0, 100, 0)
\* a fast opponent of level 2
Wolf == Character(12, 12, 8, 0, 25, 2, 0, 182, 0)

\* a hero of speed 15 at 80 of 100 health, and an opponent of speed 5 at 3 of 40
BruisedHero == Character(80, 100, 10, 5, 15, 1, 0, 100, 50)
DyingBandit == Character(3, 40, 4, 6, 5, 1, 0, 100, 0)

Stun == Effect("Stun", "STUN", 1, 0)
Poison == Effect("Poison", "POISON", 2, 3)
Regeneration == Effect("Regeneration", "REGENERATION", 2, 4)
AttackBoost == Effect("Attack Boost", "ENCHANT_ATTACK", 2, 2)

\* player, enemy, their inventories and their active effects
Scenario(p, e, pi, ei, pe, ee) ==
  [player |-> p, enemy |-> e, pinv |-> InventoryOf(pi), einv |-> InventoryOf(ei),
   peff |-> pe, eeff |-> ee]

Scenarios ==
  { Scenario(Hero, Bandit, <<>>, <<>>, <<>>, <<>>),
    Scenario(Hero, WoundedBandit, <<WornSword, StartingPotion>>, <<LeatherArmor>>, <<>>, <<Poison>>),
    Scenario(WoundedHero, Bandit, <<StartingWeapon, AttackTonic>>, <<EnemyPotion(1)>>,
             <<Regeneration>>, <<Stun>>),
    Scenario(WoundedHero, Wolf, <<StartingPotion>>, <<>>, <<Poison, AttackBoost>>, <<>>),
    Scenario(Hero, Bandit, <<LeatherArmor, WornSword, StartingWeapon>>, <<>>, <<Stun>>,
             <<Regeneration>>),
    Scenario(BruisedHero, DyingBandit, <<EmptyVial, Elixir>>, <<>>, <<>>, <<Poison>>) }

Action(type, itemId) == [type |-> type, itemId |-> itemId]

\* the ids of the items in an inventory
ItemIdsOf(slots) == {slots[i].id : i \in 1..Len(slots)} \ {"null"}

\* the actions a caller can submit: an item action names an item of the turn owner,
\* an item nobody holds, or no item at all
Actions ==
  {Action("attack", ""), Action("defend", ""), Action("flee", ""), Action("item", ""),
   Action("item", "no-such-item")}
    \cup {Action("item", id) : id \in ItemIdsOf(inventory[cs.turn])}

\* the draws an action can consume
ChanceRolls == {0, 99}
FleeRolls == {0, 29, 30, 79, 80, 99}

NoRolls == [dodge |-> 0, block |-> 0, crit |-> 0, flee |-> 0]

\* calculateDamage stops drawing at the first check that succeeds, so the draws of an
\* attack are: a low dodge roll; a high dodge and a low block roll; two high rolls and
\* a low or a high critical roll
AttackRolls ==
  { [NoRolls EXCEPT !.dodge = 0],
    [NoRolls EXCEPT !.dodge = 99, !.block = 0],
    [NoRolls EXCEPT !.dodge = 99, !.block = 99, !.crit = 0],
    [NoRolls EXCEPT !.dodge = 99, !.block = 99, !.crit = 99] }

RollsFor(action) ==
  CASE action.type = "attack" -> AttackRolls
    [] action.type = "flee" -> {[NoRolls EXCEPT !.flee = r] : r \in FleeRolls}
    [] OTHER -> {NoRolls}

NoController == [combatEngine |-> FALSE, currentCombat |-> "null"]

\* ------------------------------------------------- the engine, used directly
\* the state after new CombatEngine(player, enemy)
Init ==
  \E sc \in Scenarios, r1 \in ChanceRolls, r2 \in ChanceRolls :
    /\ chars = [PLAYER |-> sc.player, ENEMY |-> sc.enemy]
    /\ cs = NewCombatState(sc.player, sc.enemy, r1, r2)
    /\ inventory = [PLAYER |-> sc.pinv, ENEMY |-> sc.einv]
    /\ effects = [PLAYER |-> sc.peff, ENEMY |-> sc.eeff]
    /\ sameArr = [PLAYER |-> TRUE, ENEMY |-> TRUE]
    /\ gc = NoController
    /\ ret = [op |-> "new CombatEngine", action |-> Action("", ""), roll |-> 0]
    /\ calls = 0
    /\ encounters = 1

\* the heap after a call is the world the call returns
SetWorld(world) ==
  \E w \in {world} :
    /\ chars' = w.chars
    /\ cs' = w.cs
    /\ inventory' = w.inventory
    /\ effects' = w.effects
    /\ sameArr' = w.sameArr
    /\ gc' = w.gc

\* engine.executeAction(action)
ExecuteAction ==
  \E action \in Actions :
    \E rolls \in RollsFor(action) :
      /\ cs.isActive => calls < MaxActions
      /\ SetWorld(executeAction(World, action, rolls))
      /\ ret' = [op |-> "executeAction", action |-> action, roll |-> rolls.flee]
      /\ calls' = IF cs.isActive THEN calls + 1 ELSE calls
      /\ UNCHANGED encounters

Next == ExecuteAction

Spec == Init /\ [][Next]_vars

\* -------------------------------------------- the engine under GameController
\* a player's character, inventory and effects / an enemy's
Setup(ch, items, effs) == [ch |-> ch, inv |-> InventoryOf(items), eff |-> effs]

\* game states of a controller: the new game of initializeNewGame and saved games
PlayerSetups ==
  { Setup(Hero, <<StartingWeapon, StartingPotion>>, <<>>),
    Setup(WoundedHero, <<WornSword, AttackTonic>>, <<Poison, Regeneration>>) }

EnemySetups ==
  { Setup(Bandit, <<>>, <<>>),
    Setup(WoundedBandit, <<EnemyPotion(1)>>, <<Poison>>),
    Setup(Wolf, <<>>, <<>>) }

NoCharacter == Character(0, 0, 0, 0, 0, 0, 0, 0, 0)

\* the value of cs while no engine has been made
NoCombat ==
  [player |-> NoCharacter, enemy |-> NoCharacter, turn |-> "PLAYER", phase |-> "NONE",
   turnCount |-> 0, isActive |-> FALSE, combatLog |-> <<>>]

AiRolls == {0, 75, 95}
\* the draws of a level-up: the smallest and the largest gains
GainDraws == {<<0, 0, 0, 99>>, <<99, 99, 99, 0>>}

\* the AI draws only when the enemy acts and is not low on health
AiRollsFor(w) ==
  IF enemyActs(w) /\ ~(10 * w.cs.enemy.health < 3 * w.cs.enemy.maxHealth)
  THEN AiRolls ELSE {0}

\* levelUp draws only when the reward reaches the next level
GainDrawsFor(w, r1) ==
  IF /\ w.gc.combatEngine
     /\ w.chars.PLAYER.experience + getRewards(w.cs, r1, 0).experience
          >= w.chars.PLAYER.experienceToNext
  THEN GainDraws ELSE {<<0, 0, 0, 0>>}

\* a controller with a game state and no encounter
InitGC ==
  \E ps \in PlayerSetups :
    /\ chars = [PLAYER |-> ps.ch, ENEMY |-> NoCharacter]
    /\ cs = NoCombat
    /\ inventory = [PLAYER |-> ps.inv, ENEMY |-> EmptySlots]
    /\ effects = [PLAYER |-> [i \in 1..Len(ps.eff) |-> [ps.eff[i] EXCEPT !.inComb = FALSE]],
                  ENEMY |-> <<>>]
    /\ sameArr = [PLAYER |-> FALSE, ENEMY |-> FALSE]
    /\ gc = NoController
    /\ ret = [op |-> "new GameController", action |-> Action("", ""), roll |-> 0]
    /\ calls = 0
    /\ encounters = 0

\* controller.startCombat(enemy)
StartCombat ==
  \E es \in EnemySetups, r1 \in ChanceRolls, r2 \in ChanceRolls :
    /\ encounters < MaxEncounters
    /\ SetWorld(startCombat(World, es.ch, es.inv, es.eff, r1, r2))
    /\ ret' = [op |-> "startCombat", action |-> Action("", ""), roll |-> 0]
    /\ encounters' = encounters + 1
    /\ UNCHANGED calls

\* controller.executeCombatAction(action)
ExecuteCombatAction ==
  \E action \in Actions :
    \E rolls \in RollsFor(action) :
      \E w1 \in {playerAction(World, action, rolls)} :
        \E rand \in AiRollsFor(w1) :
          \E airolls \in (IF enemyActs(w1) THEN RollsFor(enemyAIAction(w1, rand))
                          ELSE {NoRolls}) :
            \E w2 \in {enemyResponse(w1, rand, airolls)} :
              \E r1 \in (IF w2.cs.phase = "REWARD" THEN ChanceRolls ELSE {0}) :
                \E r2 \in (IF w2.cs.phase = "REWARD" THEN ChanceRolls ELSE {0}) :
                  \E draws \in GainDrawsFor(w2, r1) :
                    /\ gc.combatEngine => calls < MaxCalls
                    /\ SetWorld(combatEndCheck(w2, r1, r2, <<draws>>))
                    /\ ret' = [op |-> "executeCombatAction", action |-> action, roll |-> rolls.flee]
                    /\ calls' = IF gc.combatEngine THEN calls + 1 ELSE calls
                    /\ UNCHANGED encounters

\* controller.processTurnEffects()
ProcessTurnEffects ==
  /\ calls < MaxCalls
  /\ SetWorld(processTurnEffects(World, "PLAYER"))
  /\ ret' = [op |-> "processTurnEffects", action |-> Action("", ""), roll |-> 0]
  /\ calls' = calls + 1
  /\ UNCHANGED encounters

\* controller.useItem(itemId)
UseItem ==
  \E itemId \in ItemIdsOf(inventory.PLAYER) \cup {"no-such-item"} :
    /\ calls < MaxCalls
    /\ SetWorld(useItem(World, "PLAYER", itemId))
    /\ ret' = [op |-> "useItem", action |-> Action("item", itemId), roll |-> 0]
    /\ calls' = calls + 1
    /\ UNCHANGED encounters

NextGC ==
  \/ StartCombat
  \/ ExecuteCombatAction
  \/ ProcessTurnEffects
  \/ UseItem

SpecGC == InitGC /\ [][NextGC]_vars

\* ------------------------------------- the StatusEffectManager, used directly
MaxLedgerCalls == 4

NoEffect == Effect("", "NONE", 0, 0)

\* the effects handed to applyEffect
LedgerInputs ==
  { createPoison(3, 2), createPoison(4, 5),
    createRegeneration(3, 2), createRegeneration(4, 5),
    createAttackBoost(5, 2), createAttackBoost(2, 3), createAttackBoost(5, 1),
    createDefenseBoost(2, 3),
    createStun(1), createGrowth(2) }

\* a character with an empty statusEffects array, outside combat
InitLedger ==
  \E ch \in {Hero, WoundedHero, BruisedHero} :
    /\ chars = [PLAYER |-> ch, ENEMY |-> NoCharacter]
    /\ cs = NoCombat
    /\ inventory = [PLAYER |-> EmptySlots, ENEMY |-> EmptySlots]
    /\ effects = [PLAYER |-> <<>>, ENEMY |-> <<>>]
    /\ sameArr = [PLAYER |-> FALSE, ENEMY |-> FALSE]
    /\ gc = NoController
    /\ ret = [op |-> "new character", effect |-> NoEffect, results |-> <<>>]
    /\ calls = 0
    /\ encounters = 0

\* StatusEffectManager.applyEffect(character, effect)
ApplyEffect ==
  \E effect \in LedgerInputs :
    /\ calls < MaxLedgerCalls
    /\ SetWorld(applyEffect(World, "PLAYER", effect))
    /\ ret' = [op |-> "applyEffect", effect |-> effect, results |-> <<>>]
    /\ calls' = calls + 1
    /\ UNCHANGED encounters

\* results = StatusEffectManager.processTurnEffects(character)
LedgerTurn ==
  /\ calls < MaxLedgerCalls
  /\ SetWorld(processTurnEffects(World, "PLAYER"))
  /\ ret' = [op |-> "processTurnEffects", effect |-> NoEffect,
             results |-> processTurnResults(World, "PLAYER")]
  /\ calls' = calls + 1
  /\ UNCHANGED encounters

NextLedger == ApplyEffect \/ LedgerTurn

SpecLedger == InitLedger /\ [][NextLedger]_vars

\* ---------------------------------------- the LevelingSystem, used directly
MaxLevel == 5
MaxLevelingCalls == 3
MaxTemplateLevel == 16
MaxTargetLevel == 21

\* the amounts handed to addExperience for ch: nothing, one point, one point short
\* of the threshold, what is missing to the threshold, the threshold itself, and
\* enough for several levels
AmountsFor(ch) ==
  {0, 1, 1000, ch.experienceToNext, ch.experienceToNext - ch.experience}
    \cup (IF ch.experienceToNext - ch.experience > 1
          THEN {ch.experienceToNext - ch.experience - 1} ELSE {})

\* the templates handed to scaleEnemyToLevel: characters of levels 1, 6, 11 and 16,
\* and a weak one of level 6
Templates ==
  {createCharacter(l) : l \in {l \in 1..MaxTemplateLevel : l % 5 = 1}}
    \cup {[createCharacter(6) EXCEPT !.maxHealth = 1, !.health = 1, !.attack = 3,
                                     !.defense = 1, !.speed = 7, !.gold = 5]}

\* the target levels whose scale factor is a multiple of 0.5
TargetLevelsFor(template) ==
  {t \in 1..MaxTargetLevel : (t - template.level) % 5 = 0}

NoLevelingCall == [op |-> "createCharacter", amount |-> 0, results |-> <<>>,
                   template |-> NoCharacter, targetLevel |-> 0]

\* a character made by createCharacter
InitLeveling ==
  \E level \in 1..2 :
    /\ chars = [PLAYER |-> createCharacter(level), ENEMY |-> NoCharacter]
    /\ cs = NoCombat
    /\ inventory = [PLAYER |-> EmptySlots, ENEMY |-> EmptySlots]
    /\ effects = [PLAYER |-> <<>>, ENEMY |-> <<>>]
    /\ sameArr = [PLAYER |-> FALSE, ENEMY |-> FALSE]
    /\ gc = NoController
    /\ ret = NoLevelingCall
    /\ calls = 0
    /\ encounters = 0

\* results = LevelingSystem.addExperience(character, amount)
AddExperience ==
  \E amount \in AmountsFor(chars.PLAYER), draws \in GainDraws :
    /\ calls < MaxLevelingCalls
    /\ chars.PLAYER.level < MaxLevel
    /\ chars' = [chars EXCEPT !.PLAYER = addExperience(@, amount, <<draws>>)]
    /\ ret' = [NoLevelingCall EXCEPT !.op = "addExperience", !.amount = amount,
                 !.results = addExperienceResults(chars.PLAYER, amount, <<draws>>)]
    /\ calls' = calls + 1
    /\ UNCHANGED <<cs, inventory, effects, sameArr, gc, encounters>>

\* enemy = LevelingSystem.scaleEnemyToLevel(template, targetLevel)
ScaleEnemyToLevel ==
  \E template \in Templates :
    \E targetLevel \in TargetLevelsFor(template) :
      /\ calls < MaxLevelingCalls
      /\ chars' = [chars EXCEPT !.ENEMY = scaleEnemyToLevel(template, targetLevel)]
      /\ ret' = [NoLevelingCall EXCEPT !.op = "scaleEnemyToLevel",
                   !.template = template, !.targetLevel = targetLevel]
      /\ calls' = calls + 1
      /\ UNCHANGED <<cs, inventory, effects, sameArr, gc, encounters>>

NextLeveling == AddExperience \/ ScaleEnemyToLevel

SpecLeveling == InitLeveling /\ [][NextLeveling]_vars

\* -------------------- InventoryManager, chests and the shop calls of GameController
MaxTreasureCalls == 3

Treasure(id, rarity, val) ==
  [NullItem EXCEPT !.id = id, !.type = "TREASURE", !.rarity = rarity, !.value = val]

\* an uncommon sword, a rare gem and a copper coin
IronSword == [Weapon("iron-sword", 10, 30, 37, 90) EXCEPT !.rarity = "UNCOMMON"]
Ruby == Treasure("ruby", "RARE", 1200)
CopperCoin == Treasure("copper-coin", "COMMON", 12)

\* the items handed to addItem and buyItem
ItemPool == {IronSword, CopperCoin, StartingPotion, LeatherArmor}

\* the inventories at the start: the starting equipment, a full inventory with two
\* swords, and one with a gap and a treasure
StartInventories ==
  { InventoryOf(<<StartingWeapon, StartingPotion>>),
    InventoryOf(<<StartingPotion, LeatherArmor, WornSword, StartingWeapon>>),
    InventoryOf(<<Ruby, NullItem, Elixir, EmptyVial>>) }

ChestPosition == [x |-> 5, y |-> 5]
Elsewhere == [x |-> 0, y |-> 0]

\* the chests: one item, and three items
StartChests ==
  { Chest(ChestPosition, <<IronSword>>, 15),
    Chest(ChestPosition, <<CopperCoin, AttackTonic, IronSword>>, 15) }

NoTreasureCall == [op |-> "new GameController", arg |-> "", returned |-> ""]

\* the game state of a controller outside combat
InitTreasure ==
  \E ch \in {Hero, WoundedHero}, slots \in StartInventories, chest \in StartChests :
    /\ chars = [PLAYER |-> ch, ENEMY |-> NoCharacter]
    /\ cs = NoCombat
    /\ inventory = [PLAYER |-> slots, ENEMY |-> EmptySlots]
    /\ effects = [PLAYER |-> <<>>, ENEMY |-> <<>>]
    /\ sameArr = [PLAYER |-> FALSE, ENEMY |-> FALSE]
    /\ gc = [combatEngine |-> FALSE, currentCombat |-> "null",
             treasureChests |-> <<chest>>, position |-> Elsewhere]
    /\ ret = NoTreasureCall
    /\ calls = 0
    /\ encounters = 0

\* one call that leaves world as the state and returns returned
TreasureCall(op, arg, world, returned) ==
  /\ calls < MaxTreasureCalls
  /\ SetWorld(world)
  /\ ret' = [op |-> op, arg |-> arg, returned |-> returned]
  /\ calls' = calls + 1
  /\ UNCHANGED encounters

\* InventoryManager.addItem(player.inventory, item)
AddItem ==
  \E item \in ItemPool :
    TreasureCall("addItem", item,
                 [World EXCEPT !.inventory.PLAYER = addItem(@, item)],
                 addItemReturns(inventory.PLAYER, item))

\* InventoryManager.removeItem(player.inventory, itemId)
RemoveItem ==
  \E itemId \in ItemIdsOf(inventory.PLAYER) \cup {"no-such-item"} :
    TreasureCall("removeItem", itemId,
                 [World EXCEPT !.inventory.PLAYER = removeItem(@, itemId)],
                 removeItemReturns(inventory.PLAYER, itemId))

\* controller.dropItem(slotIndex)
DropItem ==
  \E slotIndex \in -1..MAX_INVENTORY_SLOTS :
    TreasureCall("dropItemAtSlot", slotIndex,
                 [World EXCEPT !.inventory.PLAYER = dropItemAtSlot(@, slotIndex)],
                 dropItemAtSlotReturns(inventory.PLAYER, slotIndex))

\* controller.useItem(itemId), outside combat
UseInventoryItem ==
  \E itemId \in ItemIdsOf(inventory.PLAYER) \cup {"no-such-item"} :
    TreasureCall("useItem", itemId, useItem(World, "PLAYER", itemId),
                 useItemReturns(World, "PLAYER", itemId))

\* InventoryManager.sortInventory(player.inventory)
SortInventory ==
  TreasureCall("sortInventory", "",
               [World EXCEPT !.inventory.PLAYER = sortInventory(@)], "")

\* TreasureSystem.openTreasureChest(chest, player)
OpenTreasureChest ==
  \E c \in DOMAIN gc.treasureChests :
    TreasureCall("openTreasureChest", c, openTreasureChest(World, c),
                 openTreasureChestReturns(World, c))

\* controller.movePlayer(newPosition)
MovePlayer ==
  \E newPosition \in {ChestPosition, Elsewhere} :
    TreasureCall("movePlayer", newPosition, movePlayer(World, newPosition), "")

\* controller.buyItem(item)
BuyItem ==
  \E item \in ItemPool :
    TreasureCall("buyItem", item, buyItem(World, item), buyItemReturns(World, item))

\* controller.sellItem(itemId)
SellItem ==
  \E itemId \in ItemIdsOf(inventory.PLAYER) \cup {"no-such-item"} :
    TreasureCall("sellItem", itemId, sellItem(World, itemId),
                 sellItemReturns(World, itemId))

NextTreasure ==
  \/ AddItem \/ RemoveItem \/ DropItem \/ UseInventoryItem \/ SortInventory
  \/ OpenTreasureChest \/ MovePlayer \/ BuyItem \/ SellItem

SpecTreasure == InitTreasure /\ [][NextTreasure]_vars

\* ------------------------------ the generators and prices of TreasureSystem
MaxRarityLevel == 3
MaxItemValue == 12
MaxShopLevel == 2
MaxItemCount == 5

\* items to price: treasures without durability, and swords at every durability of
\* a maxDurability of 0, 2, 4, 5, 8 and 10
PricedItems ==
  {Treasure("trinket", "COMMON", v) : v \in 0..MaxItemValue}
    \cup {Weapon("blade", 1, dm[1], dm[2], v) :
            v \in 0..MaxItemValue,
            dm \in {x \in (0..10) \X {0, 2, 4, 5, 8, 10} : x[1] <= x[2]}}

\* the draws of one generated item: the rarity roll in halves, the item type roll,
\* the stat of the consumable type and the bonus stat
Draw(rarity, type, stat, bonus) ==
  [rarity |-> rarity, type |-> type, stat |-> stat, bonus |-> bonus]

NoDraw == Draw(0, 0, "health", 1)

\* rarity rolls that give each of the five rarities at level 1
RarityDraws == {0, 10, 30, 80, 150}

\* the draws of the i-th item of a shop of itemCount items
DrawsOfItem(i, itemCount) ==
  CASE i = 1 -> {Draw(r, 0, "health", b) : r \in RarityDraws, b \in {1, 5}}
    [] i = 2 -> {Draw(r, 0, "health", 1) : r \in RarityDraws}
    [] i = 3 -> {Draw(0, 0, stat, 1) : stat \in {"health", "attack", "defense", "speed"}}
    [] i = 4 -> {Draw(0, 0, stat, 1) : stat \in {"health", "speed"}}
    [] i > itemCount -> {NoDraw}
    [] OTHER -> {Draw(0, 10, "attack", 3), Draw(150, 40, "attack", 3),
                 Draw(0, 70, "attack", 3), Draw(150, 95, "attack", 3)}

NoShopCall ==
  [op |-> "TreasureSystem", done |-> FALSE, level |-> 0, halves |-> 0, inLoop |-> TRUE,
   item |-> NullItem, itemCount |-> 0, draws |-> <<>>, generated |-> <<>>, returned |-> ""]

\* the call to make: a level with a roll in [0, 100 + 2 * level) that is a whole
\* number of halves, a priced item, or a shop
InitShop ==
  /\ chars = [PLAYER |-> Hero, ENEMY |-> NoCharacter]
  /\ cs = NoCombat
  /\ inventory = [PLAYER |-> EmptySlots, ENEMY |-> EmptySlots]
  /\ effects = [PLAYER |-> <<>>, ENEMY |-> <<>>]
  /\ sameArr = [PLAYER |-> FALSE, ENEMY |-> FALSE]
  /\ gc = NoController
  /\ \/ \E level \in 0..MaxRarityLevel :
          \E halves \in 0..(2 * (100 + 2 * level) - 1) :
            ret = [NoShopCall EXCEPT !.op = "rollRarity", !.level = level,
                     !.halves = halves]
     \/ \E item \in PricedItems :
          ret = [NoShopCall EXCEPT !.op = "calculateSellPrice", !.item = item]
     \/ \E level \in 1..MaxShopLevel, itemCount \in 0..MaxItemCount :
          \E d1 \in DrawsOfItem(1, itemCount), d2 \in DrawsOfItem(2, itemCount),
             d3 \in DrawsOfItem(3, itemCount), d4 \in DrawsOfItem(4, itemCount),
             d5 \in DrawsOfItem(5, itemCount), d6 \in DrawsOfItem(6, itemCount) :
            ret = [NoShopCall EXCEPT !.op = "generateShopInventory", !.level = level,
                     !.itemCount = itemCount, !.draws = <<d1, d2, d3, d4, d5, d6>>]
  /\ calls = 0
  /\ encounters = 0

\* rarity = TreasureSystem.rollRarity(level)
RollRarity ==
  /\ ret.op = "rollRarity"
  /\ ~ret.done
  /\ ret' = [ret EXCEPT !.done = TRUE,
               !.inLoop = RarityWalk(ret.level, ret.halves).inLoop,
               !.returned = rollRarity(ret.level, ret.halves)]
  /\ UNCHANGED <<chars, cs, inventory, effects, sameArr, gc, calls, encounters>>

\* price = TreasureSystem.calculateSellPrice(item)
CalculateSellPrice ==
  /\ ret.op = "calculateSellPrice"
  /\ ~ret.done
  /\ ret' = [ret EXCEPT !.done = TRUE, !.returned = calculateSellPrice(ret.item)]
  /\ UNCHANGED <<chars, cs, inventory, effects, sameArr, gc, calls, encounters>>

\* items = TreasureSystem.generateShopInventory(level, itemCount)
GenerateShopInventory ==
  /\ ret.op = "generateShopInventory"
  /\ ~ret.done
  /\ ret' = [ret EXCEPT !.done = TRUE,
               !.generated = ShopItems(ret.level, ret.itemCount, ret.draws),
               !.returned = generateShopInventory(ret.level, ret.itemCount, ret.draws)]
  /\ UNCHANGED <<chars, cs, inventory, effects, sameArr, gc, calls, encounters>>

NextShop == RollRarity \/ CalculateSellPrice \/ GenerateShopInventory

SpecShop == InitShop /\ [][NextShop]_vars

\* ------------------------------------- two encounters driven alike (replay)
\* the values Date.now() can return during a call
Clock == {1000, 2000}

\* the id prefix of the boost that applyConsumableEffect logs with this message
BoostPrefix(text) ==
  CASE text = "gains attack" -> "boost-attack"
    [] text = "gains defense" -> "boost-defense"
    [] OTHER -> "boost-speed"

\* the ids of the boosts applyConsumableEffect pushed during a call that read `now`
\* from the clock: one boost per "gains" message of the call
boostIds(before, after, now) ==
  LET gains == SelectSeq(after.cs.combatLog,
                         LAMBDA e : e.text \in {"gains attack", "gains defense", "gains speed"})
  IN IF before.cs.isActive
     THEN [i \in 1..Len(gains) |-> [prefix |-> BoostPrefix(gains[i].text), now |-> now]]
     ELSE <<>>

\* two engines over equal combatants, with the same draws for the first turn; the
\* second encounter is kept in ret.twin
InitReplay ==
  \E sc \in Scenarios, r1 \in ChanceRolls, r2 \in ChanceRolls :
    /\ chars = [PLAYER |-> sc.player, ENEMY |-> sc.enemy]
    /\ cs = NewCombatState(sc.player, sc.enemy, r1, r2)
    /\ inventory = [PLAYER |-> sc.pinv, ENEMY |-> sc.einv]
    /\ effects = [PLAYER |-> sc.peff, ENEMY |-> sc.eeff]
    /\ sameArr = [PLAYER |-> TRUE, ENEMY |-> TRUE]
    /\ gc = NoController
    /\ ret = [op |-> "new CombatEngine", action |-> Action("", ""),
              twin |-> [chars |-> [PLAYER |-> sc.player, ENEMY |-> sc.enemy],
                        cs |-> NewCombatState(sc.player, sc.enemy, r1, r2),
                        inventory |-> [PLAYER |-> sc.pinv, ENEMY |-> sc.einv],
                        effects |-> [PLAYER |-> sc.peff, ENEMY |-> sc.eeff],
                        sameArr |-> [PLAYER |-> TRUE, ENEMY |-> TRUE],
                        gc |-> NoController],
              ids |-> <<<<>>, <<>>>>]
    /\ calls = 0
    /\ encounters = 1

\* the same executeAction(action) on both engines with the same draws, each call
\* reading its own clock
Replay ==
  \E action \in Actions :
    \E rolls \in RollsFor(action), now1 \in Clock, now2 \in Clock :
      \E w \in {executeAction(World, action, rolls)},
         t \in {executeAction(ret.twin, action, rolls)} :
        /\ cs.isActive => calls < MaxActions
        /\ SetWorld(w)
        /\ ret' = [op |-> "executeAction", action |-> action, twin |-> t,
                   ids |-> <<boostIds(World, w, now1), boostIds(ret.twin, t, now2)>>]
        /\ calls' = IF cs.isActive THEN calls + 1 ELSE calls
        /\ UNCHANGED encounters

NextReplay == Replay

SpecReplay == InitReplay /\ [][NextReplay]_vars

\* ------------------------------------------ saving and loading the game state
MaxSaveCalls == 3

\* JSON text: either text that JSON.parse rejects, or the text of a game state
SaveData(player, items, effs, currentCombat) ==
  [wellFormed |-> TRUE, player |-> player, items |-> items, effects |-> effs,
   currentCombat |-> currentCombat]

Malformed == [SaveData(NoCharacter, <<>>, <<>>, "null") EXCEPT !.wellFormed = FALSE]

\* JSON.stringify(this.gameState): the player's fields, slots and effect entries
JSONstringify(w) ==
  LET arr == OrigArr(w.effects.PLAYER)
  IN SaveData(w.chars.PLAYER, w.inventory.PLAYER,
              [i \in 1..Len(arr) |-> [arr[i] EXCEPT !.inOrig = TRUE, !.inComb = FALSE]],
              w.gc.currentCombat)

\* saveGame()
saveGame(w) == JSONstringify(w)

\* loadGame(saveData): JSON.parse throws on malformed text and the catch keeps the
\* state; any text that parses becomes the game state, and the engine is dropped
loadGame(w, saveData) ==
  IF ~saveData.wellFormed THEN w
  ELSE [w EXCEPT !.chars.PLAYER = saveData.player,
                 !.inventory.PLAYER = saveData.items,
                 !.effects.PLAYER = saveData.effects,
                 !.sameArr.PLAYER = FALSE,
                 !.cs = NoCombat,
                 !.gc = [combatEngine |-> FALSE, currentCombat |-> saveData.currentCombat]]

\* save texts from outside: malformed text, a sound save, and saves that parse but
\* hold a negative health, a health above maxHealth, or 5 items for 4 slots
SaveTexts ==
  { Malformed,
    SaveData(WoundedHero, InventoryOf(<<WornSword>>), <<>>, "null"),
    SaveData([Hero EXCEPT !.health = 0 - 5], InventoryOf(<<StartingWeapon>>), <<>>, "null"),
    SaveData([Hero EXCEPT !.health = Hero.maxHealth + 1], InventoryOf(<<>>), <<>>, "null"),
    SaveData(Hero, <<StartingWeapon, StartingPotion, WornSword, LeatherArmor, AttackTonic>>,
             <<>>, "null") }

NoSaveCall == [op |-> "new GameController", saveData |-> Malformed, saved |-> Malformed]

InitSave ==
  \E ps \in PlayerSetups :
    /\ chars = [PLAYER |-> ps.ch, ENEMY |-> NoCharacter]
    /\ cs = NoCombat
    /\ inventory = [PLAYER |-> ps.inv, ENEMY |-> EmptySlots]
    /\ effects = [PLAYER |-> [i \in 1..Len(ps.eff) |-> [ps.eff[i] EXCEPT !.inComb = FALSE]],
                  ENEMY |-> <<>>]
    /\ sameArr = [PLAYER |-> FALSE, ENEMY |-> FALSE]
    /\ gc = NoController
    /\ ret = NoSaveCall
    /\ calls = 0
    /\ encounters = 0

\* saved = controller.saveGame()
SaveGame ==
  /\ calls < MaxSaveCalls
  /\ ret' = [op |-> "saveGame", saveData |-> Malformed, saved |-> saveGame(World)]
  /\ calls' = calls + 1
  /\ UNCHANGED <<chars, cs, inventory, effects, sameArr, gc, encounters>>

\* controller.loadGame(saveData), with a text from outside or the one saved last
LoadGame ==
  \E saveData \in SaveTexts \cup {ret.saved} :
    /\ calls < MaxSaveCalls
    /\ SetWorld(loadGame(World, saveData))
    /\ ret' = [op |-> "loadGame", saveData |-> saveData, saved |-> ret.saved]
    /\ calls' = calls + 1
    /\ UNCHANGED encounters

\* controller.useItem(itemId) between saves
UseItemBetweenSaves ==
  \E itemId \in ItemIdsOf(inventory.PLAYER) :
    /\ calls < MaxSaveCalls
    /\ SetWorld(useItem(World, "PLAYER", itemId))
    /\ ret' = [op |-> "useItem", saveData |-> Malformed, saved |-> ret.saved]
    /\ calls' = calls + 1
    /\ UNCHANGED encounters

NextSave == SaveGame \/ LoadGame \/ UseItemBetweenSaves

SpecSave == InitSave /\ [][NextSave]_vars

\* --------------------------- turn-start processing: the engine and the ledger
\* the effects a combatant can hold at the start of its turn
TurnStartEffects ==
  { createPoison(3, 2), createPoison(5, 1), createRegeneration(4, 2), createStun(1),
    createAttackBoost(2, 1), createDefenseBoost(2, 2), createGrowth(2), createGrowth(1) }

\* statusEffects arrays of at most two entries
TurnStartArrays ==
  {<<>>} \cup {<<e>> : e \in TurnStartEffects}
         \cup {<<e, f>> : e \in TurnStartEffects, f \in TurnStartEffects}

\* what both processings leave of the combatant: fields and remaining effects
TurnStartOutcome(ch, arr) ==
  [health |-> ch.health, maxHealth |-> ch.maxHealth, attack |-> ch.attack,
   effects |-> [i \in 1..Len(arr) |->
                  [name |-> arr[i].name, type |-> arr[i].type,
                   duration |-> arr[i].duration, power |-> arr[i].power]]]

NoTurnStart ==
  [op |-> "new CombatEngine", done |-> FALSE,
   engine |-> TurnStartOutcome(NoCharacter, <<>>),
   ledger |-> TurnStartOutcome(NoCharacter, <<>>)]

\* an engine over two combatants that hold the same effects, either of them first
InitTurnStart ==
  \E p \in {Hero, WoundedHero, BruisedHero}, e \in {Bandit, WoundedBandit},
     arr \in TurnStartArrays, r1 \in ChanceRolls, r2 \in ChanceRolls :
    /\ chars = [PLAYER |-> p, ENEMY |-> e]
    /\ cs = NewCombatState(p, e, r1, r2)
    /\ inventory = [PLAYER |-> EmptySlots, ENEMY |-> EmptySlots]
    /\ effects = [PLAYER |-> arr, ENEMY |-> arr]
    /\ sameArr = [PLAYER |-> TRUE, ENEMY |-> TRUE]
    /\ gc = NoController
    /\ ret = NoTurnStart
    /\ calls = 0
    /\ encounters = 1

\* the turn owner's turn-start processing by the engine (applyStatusEffects), next
\* to StatusEffectManager.processTurnEffects on the same combatant state
TurnStart ==
  \E e \in {applyStatusEffects(World)}, l \in {processTurnEffects(World, cs.turn)} :
    /\ ~ret.done
    /\ SetWorld(e)
    /\ ret' = [op |-> "applyStatusEffects", done |-> TRUE,
               engine |-> TurnStartOutcome(Combatant(e.cs, cs.turn), CombArr(e.effects[cs.turn])),
               ledger |-> TurnStartOutcome(l.chars[cs.turn], OrigArr(l.effects[cs.turn]))]
    /\ UNCHANGED <<calls, encounters>>

NextTurnStart == TurnStart

SpecTurnStart == InitTurnStart /\ [][NextTurnStart]_vars

\* ---------------------------------------- effective stats next to combat totals
MaxHeldItems == 3

\* a sword that also gives speed, a broken sword and a second armor
SwiftBlade == [Weapon("swift-blade", 6, 10, 10, 120) EXCEPT !.speed = 2]
BrokenSword == Weapon("broken-sword", 3, 0, 50, 10)
ChainMail == Armor("chain-mail", 4, 30, 30, 60)

HeldItems == {StartingWeapon, WornSword, SwiftBlade, BrokenSword, LeatherArmor, ChainMail,
              AttackTonic}

RECURSIVE ItemLists(_)
ItemLists(n) ==
  IF n = 0 THEN {<<>>}
  ELSE ItemLists(n - 1)
         \cup {Append(l, item) : l \in {x \in ItemLists(n - 1) : Len(x) = n - 1},
                                 item \in HeldItems}

EnchantArrays ==
  LET es == {createAttackBoost(2, 2), createDefenseBoost(3, 2),
             Effect("Speed Boost", "ENCHANT_SPEED", 3, 1), createPoison(3, 2)}
  IN {<<>>} \cup {<<e>> : e \in es} \cup {<<e, createAttackBoost(5, 1)>> : e \in es}

NoStats == [attack |-> 0, defense |-> 0, speed |-> 0]

InitStats ==
  \E ch \in {Hero, Wolf}, arr \in EnchantArrays :
    \E items \in ItemLists(Min(MaxHeldItems, MAX_INVENTORY_SLOTS)) :
      /\ chars = [PLAYER |-> ch, ENEMY |-> NoCharacter]
      /\ cs = NoCombat
      /\ inventory = [PLAYER |-> InventoryOf(items), ENEMY |-> EmptySlots]
      /\ effects = [PLAYER |-> arr, ENEMY |-> <<>>]
      /\ sameArr = [PLAYER |-> TRUE, ENEMY |-> FALSE]
      /\ gc = NoController
      /\ ret = [op |-> "createCharacter", done |-> FALSE, stats |-> NoStats,
                combat |-> NoStats]
      /\ calls = 0
      /\ encounters = 0

\* stats = LevelingSystem.getEffectiveStats(player), next to the totals
\* calculateDamage computes for the same character
GetEffectiveStats ==
  /\ ~ret.done
  /\ ret' = [op |-> "getEffectiveStats", done |-> TRUE,
             stats |-> getEffectiveStats(chars.PLAYER, inventory.PLAYER,
                                         OrigArr(effects.PLAYER)),
             combat |-> combatTotals(chars.PLAYER, inventory.PLAYER,
                                     OrigArr(effects.PLAYER))]
  /\ UNCHANGED <<chars, cs, inventory, effects, sameArr, gc, calls, encounters>>

NextStats == GetEffectiveStats

SpecStats == InitStats /\ [][NextStats]_vars

\* ---------------------------------------------- an encounter under attack
MaxOpeningActions == 1
MaxTurnCount == 3

\* turnCount is only reported, never read: it is kept up to MaxTurnCount, so that an
\* encounter that goes on has finitely many states
KeepTurnCount(w) == [w EXCEPT !.cs.turnCount = Min(@, MaxTurnCount)]

\* whether the attack of the call landed: neither dodged nor blocked
Landed(w) ==
  \E i \in 1..Len(w.cs.combatLog) :
    w.cs.combatLog[i].text \in {"deals damage", "deals damage, critical hit"}

\* an opponent whose defense leaves every attack at the minimum damage
Turtle == Character(3, 3, 1, 30, 1, 1, 0, 100, 0)

\* encounters between wounded combatants, with healing effects, a potion, a sword
\* about to break and a stun
AttackScenarios ==
  { Scenario(WoundedHero, WoundedBandit, <<WornSword, StartingPotion>>, <<>>,
             <<Regeneration>>, <<Regeneration, Poison>>),
    Scenario(WoundedHero, DyingBandit, <<StartingWeapon>>, <<LeatherArmor>>,
             <<Poison>>, <<Stun>>),
    Scenario([Hero EXCEPT !.health = 6], Wolf, <<>>, <<EnemyPotion(1)>>, <<Stun>>,
             <<createRegeneration(2, 3)>>),
    Scenario([Hero EXCEPT !.health = 4], Turtle, <<>>, <<>>, <<>>, <<>>) }

InitAttack ==
  \E sc \in AttackScenarios, r1 \in ChanceRolls, r2 \in ChanceRolls :
    /\ chars = [PLAYER |-> sc.player, ENEMY |-> sc.enemy]
    /\ cs = NewCombatState(sc.player, sc.enemy, r1, r2)
    /\ inventory = [PLAYER |-> sc.pinv, ENEMY |-> sc.einv]
    /\ effects = [PLAYER |-> sc.peff, ENEMY |-> sc.eeff]
    /\ sameArr = [PLAYER |-> TRUE, ENEMY |-> TRUE]
    /\ gc = NoController
    /\ ret = [op |-> "new CombatEngine", action |-> Action("", ""), landed |-> FALSE]
    /\ calls = 0
    /\ encounters = 1

\* engine.executeAction(action) with any action, at the opening of the encounter
OpeningAction ==
  \E action \in Actions :
    \E rolls \in RollsFor(action) :
      \E w \in {KeepTurnCount(executeAction(World, action, rolls))} :
        /\ cs.isActive
        /\ calls < MaxOpeningActions
        /\ SetWorld(w)
        /\ ret' = [op |-> "executeAction", action |-> action,
                   landed |-> action.type = "attack" /\ Landed(w)]
        /\ calls' = calls + 1
        /\ UNCHANGED encounters

\* engine.executeAction({type: 'attack'}), as often as the caller likes
Attack ==
  \E rolls \in AttackRolls :
    \E w \in {KeepTurnCount(executeAction(World, Action("attack", ""), rolls))} :
      /\ SetWorld(w)
      /\ ret' = [op |-> "executeAction", action |-> Action("attack", ""),
                 landed |-> cs.isActive /\ Landed(w)]
      /\ UNCHANGED <<calls, encounters>>

NextAttack == OpeningAction \/ Attack

\* no fairness is assumed: the caller may stop submitting actions at any time
SpecAttack == InitAttack /\ [][NextAttack]_vars

\* ------------------------------------------------------------- properties
HitTexts == {"deals damage", "deals damage, critical hit"}
MissTexts == {"dodged the attack", "blocked the attack"}

\* the entries with one of the texts among those the latest acting call appended
Logged(c, texts) == SelectSeq(c.combatLog, LAMBDA e : e.text \in texts)

\* the Defensive Stance objects of an effects array
Stances(arr) == SelectSeq(arr, LAMBDA c : c.name = "Defensive Stance")

\* the other objects of an effects array
Unstanced(arr) == SelectSeq(arr, LAMBDA c : c.name # "Defensive Stance")

\* an effect object as the program sees it
Plain(c) == [name |-> c.name, type |-> c.type, duration |-> c.duration, power |-> c.power]

\* who holds a STUN effect in its combat copy
Stunned(who) ==
  \E i \in 1..Len(effects[who]) : effects[who][i].inComb /\ effects[who][i].type = "STUN"

HealthInBounds(ch) == 0 <= ch.health /\ ch.health <= ch.maxHealth

\* C1: in every reachable state the health of every combatant, the controller's two
\* characters and the engine's two combat copies, lies between 0 and its maxHealth
C1_HealthBounds ==
  \A o \in Owners : HealthInBounds(chars[o]) /\ HealthInBounds(Combatant(cs, o))

\* a lethal hit worth more than the health left, followed by a level-up of the player
C1_Witness ==
  /\ ret.op = "executeCombatAction"
  /\ cs.enemy.health = 0
  /\ \E i \in 1..Len(cs.combatLog) :
       cs.combatLog[i].text \in HitTexts /\ cs.combatLog[i].n > chars.ENEMY.health
  /\ chars.PLAYER.level = 2

\* C2: whenever executeCombatAction returns with the encounter still active, the turn
\* owner is the player, so that the caller's next action is the player's
C2_ReturnsOnPlayerTurn ==
  (ret.op = "executeCombatAction" /\ gc.combatEngine /\ cs.isActive) => cs.turn = "PLAYER"

\* C3: executeAction on an ended encounter changes nothing: characters, combat state
\* (health, turn, phase, turnCount, log), inventories and effects stay as they were
C3_EndedIsFrozen ==
  [][(~cs.isActive /\ ret'.op = "executeAction")
       => UNCHANGED <<chars, cs, inventory, effects, sameArr, gc>>]_vars

\* an attack submitted to an ended encounter: the log holds no outcome of an attack
C3_Witness ==
  /\ ~cs.isActive
  /\ ret.op = "executeAction"
  /\ ret.action.type = "attack"
  /\ Logged(cs, HitTexts \cup MissTexts) = <<>>

\* C4: the action submitted for a turn owner that starts its turn stunned is not
\* performed: the opponent, both inventories and the opponent's effects stay as they
\* were, the owner gains no effect, nobody flees, and the turn passes to the opponent
C4_StunnedActionNotPerformed ==
  [][(cs.isActive /\ cs.phase = "ATTACK" /\ Stunned(cs.turn) /\ ret'.op = "executeAction")
       => /\ Combatant(cs', Other(cs.turn)) = Combatant(cs, Other(cs.turn))
          /\ inventory' = inventory
          /\ effects'[Other(cs.turn)] = effects[Other(cs.turn)]
          /\ Len(CombArr(effects'[cs.turn])) <= Len(CombArr(effects[cs.turn]))
          /\ Logged(cs', {"fled from battle"}) = <<>>
          /\ (cs'.isActive => cs'.turn = Other(cs.turn))]_vars

\* C5: the encounter starts in phase ATTACK with turnCount 1; while it stays active an
\* action in phase ATTACK of an owner that is not stunned leads to phase DEFEND of the
\* same owner, an action in phase DEFEND to phase ATTACK of the other owner with
\* turnCount one higher; and turnCount rises by one exactly when the owner switches
C5_TurnProgression ==
  /\ (calls = 0 => cs.phase = "ATTACK" /\ cs.turnCount = 1)
  /\ [][ret'.op = "executeAction"
          => /\ cs'.turnCount = cs.turnCount + (IF cs'.turn # cs.turn THEN 1 ELSE 0)
             /\ (cs.isActive /\ cs'.isActive /\ cs.phase = "ATTACK" /\ ~Stunned(cs.turn))
                  => (cs'.phase = "DEFEND" /\ cs'.turn = cs.turn)
             /\ (cs.isActive /\ cs'.isActive /\ cs.phase = "DEFEND")
                  => (cs'.phase = "ATTACK" /\ cs'.turn = Other(cs.turn)
                        /\ cs'.turnCount = cs.turnCount + 1)]_vars

\* the third turn of an encounter, after two switches of the owner
C5_Witness == cs.isActive /\ cs.turnCount = 3 /\ cs.phase = "DEFEND"

\* C6: isActive is false exactly in the phases ENDED and REWARD; REWARD means the
\* enemy is at health 0 and the player above 0; ENDED means the player is at health 0
\* or somebody fled; and after a call no combatant of an active encounter is at health 0
C6_TerminalStates ==
  /\ ~cs.isActive <=> cs.phase \in {"ENDED", "REWARD"}
  /\ cs.phase = "REWARD" => (cs.enemy.health = 0 /\ cs.player.health > 0)
  /\ cs.phase = "ENDED" => (cs.player.health = 0 \/ Logged(cs, {"fled from battle"}) # <<>>)
  /\ (ret.op = "executeAction" /\ (cs.player.health = 0 \/ cs.enemy.health = 0))
       => ~cs.isActive

\* a victory
C6_Witness == ret.op = "executeAction" /\ cs.phase = "REWARD" /\ cs.enemy.health = 0

AttackTotal(who, inv, arr) ==
  Combatant(cs, who).attack
    + (IF WeaponIndex(inv) # 0 THEN inv[WeaponIndex(inv)].attack ELSE 0)
    + SumPower(arr, "ENCHANT_ATTACK")

\* F of an attack on who: defense, the bonus of the first usable armor of inv, and
\* the DEFENSE enchants of arr
DefenseTotal(who, inv, arr) ==
  Combatant(cs, who).defense
    + (IF ArmorIndex(inv) # 0 THEN inv[ArmorIndex(inv)].defense ELSE 0)
    + SumPower(arr, "ENCHANT_DEFENSE")

\* max(1, floor(1.5 * D - 0.5 * F)) on a critical hit, max(1, floor(D - 0.5 * F)) else
LandedDamage(D, F, entry) ==
  Max(1, ((IF entry.text = "deals damage, critical hit" THEN 3 ELSE 2) * D - F) \div 2)

\* a call of executeAction with an attack, on an active encounter
AttackStep == cs.isActive /\ ret'.op = "executeAction" /\ ret'.action.type = "attack"

\* C8: an attack is dodged, blocked or lands; dodged or blocked it leaves the defender's
\* health as it was; landed it deals max(1, floor(D - 0.5 * F)), D taken times 1.5 on a
\* critical hit, with D and F the totals at the time of the attack, which is at least 1,
\* and the defender's health drops by the smaller of the damage and that health
C8_DamageFormula ==
  [][AttackStep
       => LET a == cs.turn
              d == Other(cs.turn)
              D == AttackTotal(a, inventory[a], CombArr(effects'[a]))
              F == DefenseTotal(d, inventory[d], CombArr(effects[d]))
              hits == Logged(cs', HitTexts)
              misses == Logged(cs', MissTexts)
              before == Combatant(cs, d).health
              after == Combatant(cs', d).health
          IN /\ Len(hits) + Len(misses) = 1
             /\ Len(misses) = 1 => after = before
             /\ Len(hits) = 1 => /\ hits[1].n = LandedDamage(D, F, hits[1])
                                 /\ hits[1].n >= 1
                                 /\ after = before - Min(hits[1].n, before)]_vars

\* attack 10 against defense 6 without weapon, effect or critical hit: 7, from 40 to 33
C8_Witness ==
  /\ ret.op = "executeAction"
  /\ ret.action.type = "attack"
  /\ Logged(cs, HitTexts) = <<LogEntry("deals damage", "PLAYER", 7)>>
  /\ cs.player.attack = 10
  /\ cs.enemy.defense = 6
  /\ cs.enemy.maxHealth = 40
  /\ cs.enemy.health = 33

\* C9: a landed attack takes exactly 1 from the durability of the attacker's first
\* usable weapon; every other item with a durability, in every call, stays as it was
\* and in its slot; no durability is below 0; and an attacker whose weapons are all
\* at durability 0 deals the damage of its bare attack
C9_WeaponDurability ==
  /\ [](\A o \in Owners, i \in 1..MAX_INVENTORY_SLOTS :
          inventory[o][i].hasDurability => inventory[o][i].durability >= 0)
  /\ [][ret'.op = "executeAction"
          => LET a == cs.turn
                 d == Other(cs.turn)
                 wi == WeaponIndex(inventory[a])
                 hits == Logged(cs', HitTexts)
                 landed == AttackStep /\ Len(hits) = 1
             IN /\ \A o \in Owners, i \in 1..MAX_INVENTORY_SLOTS :
                     inventory[o][i].hasDurability
                       => inventory'[o][i] =
                            IF landed /\ o = a /\ i = wi
                            THEN [inventory[o][i] EXCEPT !.durability = @ - 1]
                            ELSE inventory[o][i]
                /\ (landed /\ wi = 0)
                     => hits[1].n =
                          LandedDamage(Combatant(cs, a).attack
                                         + SumPower(CombArr(effects'[a]), "ENCHANT_ATTACK"),
                                       DefenseTotal(d, inventory[d], CombArr(effects[d])),
                                       hits[1])]_vars

\* the worn sword has broken and stays in its slot, and the next landed attack has
\* worn the second sword
C9_Witness ==
  /\ inventory.PLAYER[2].id = "worn-sword"
  /\ inventory.PLAYER[2].durability = 0
  /\ inventory.PLAYER[3].id = "starter-sword"
  /\ inventory.PLAYER[3].durability = 49

\* C10: a defend by the turn owner X sets X's health to min(maxHealth, health +
\* floor(0.05 * maxHealth)) and appends to X's effects a DEFENSE enchant of duration 1
\* and power floor(0.5 * defense); the stances of X last through the calls of X's turn
\* and of the opponent's turn, count in F when the opponent's attack lands, and are
\* gone after the first call of X's next turn, but for the one that call adds
C10_DefensiveStance ==
  [][(cs.isActive /\ ret'.op = "executeAction")
       => LET x == cs.turn
              y == Other(cs.turn)
              defends == ret'.action.type = "defend"
              \* X after the status processing that opens its turn
              start == IF cs.phase = "ATTACK" THEN applyStatusEffects(World) ELSE World
              me == Combatant(start.cs, x)
              now == CombArr(effects'[x])
              hits == Logged(cs', HitTexts)
          IN /\ defends
                  => /\ Combatant(cs', x).health
                          = Min(me.maxHealth, me.health + (5 * me.maxHealth) \div 100)
                     /\ Len(now) = Len(CombArr(start.effects[x])) + 1
                     /\ Plain(now[Len(now)])
                          = [name |-> "Defensive Stance", type |-> "ENCHANT_DEFENSE",
                             duration |-> 1, power |-> me.defense \div 2]
             /\ Len(Stances(now))
                  = (IF cs.phase = "ATTACK" THEN 0 ELSE Len(Stances(CombArr(effects[x]))))
                      + (IF defends THEN 1 ELSE 0)
             /\ Stances(CombArr(effects'[y])) = Stances(CombArr(effects[y]))
             /\ (ret'.action.type = "attack" /\ Len(hits) = 1)
                  => hits[1].n
                       = LandedDamage(AttackTotal(x, inventory[x], now),
                                      DefenseTotal(y, inventory[y], Unstanced(CombArr(effects[y])))
                                        + SumPower(Stances(CombArr(effects[y])),
                                                   "ENCHANT_DEFENSE"),
                                      hits[1])]_vars

\* an attack has landed on a combatant in its defensive stance
C10_Witness ==
  /\ ret.op = "executeAction"
  /\ ret.action.type = "attack"
  /\ \E i \in 1..Len(cs.combatLog) :
       /\ cs.combatLog[i].text \in HitTexts
       /\ Stances(CombArr(effects[Other(cs.combatLog[i].who)])) # <<>>
       /\ cs.isActive

\* the world after the status processing that opens a turn, which is the world an
\* action of phase ATTACK works on
TurnStarted == IF cs.phase = "ATTACK" THEN applyStatusEffects(World) ELSE World

\* type, duration and power of the effects of an array
Timed(arr) ==
  [k \in 1..Len(arr) |->
     [type |-> arr[k].type, duration |-> arr[k].duration, power |-> arr[k].power]]

\* one enchant of 3 turns per stat of the item that is not 0, in the order attack,
\* defense, speed
ItemEnchants(item) ==
  (IF item.attack # 0
   THEN <<[type |-> "ENCHANT_ATTACK", duration |-> 3, power |-> item.attack]>> ELSE <<>>)
  \o (IF item.defense # 0
      THEN <<[type |-> "ENCHANT_DEFENSE", duration |-> 3, power |-> item.defense]>> ELSE <<>>)
  \o (IF item.speed # 0
      THEN <<[type |-> "ENCHANT_SPEED", duration |-> 3, power |-> item.speed]>> ELSE <<>>)

\* a call of executeAction with an item action that names an item, on an active encounter
ItemStep ==
  /\ cs.isActive
  /\ ret'.op = "executeAction"
  /\ ret'.action.type = "item"
  /\ ret'.action.itemId # ""

\* C11: an item action that names a consumable of the turn owner heals the owner by
\* the item's health stat up to maxHealth, appends one enchant of 3 turns and of the
\* stat's power per attack, defense and speed stat that is not 0, and empties the slot
\* of the item, with or without stats; every other slot of both inventories and the
\* opponent's effects stay as they were
C11_ConsumableInCombat ==
  [][ItemStep
       => LET x == cs.turn
              i == ItemIndex(inventory[x], ret'.action.itemId)
              item == inventory[x][i]
              me == Combatant(TurnStarted.cs, x)
          IN (i # 0 /\ item.type = "CONSUMABLE")
               => /\ Combatant(cs', x).health = Min(me.maxHealth, me.health + item.health)
                  /\ Combatant(cs', x).health <= me.maxHealth
                  /\ Timed(CombArr(effects'[x]))
                       = Timed(CombArr(TurnStarted.effects[x])) \o ItemEnchants(item)
                  /\ inventory'[x][i] = NullItem
                  /\ \A j \in 1..MAX_INVENTORY_SLOTS : j # i => inventory'[x][j] = inventory[x][j]
                  /\ inventory'[Other(x)] = inventory[Other(x)]
                  /\ effects'[Other(x)] = effects[Other(x)]]_vars

\* the hero at 80 of 100 has used the vial without stats and the elixir: both slots
\* are empty, the heal of 30 stopped at 100, and the two enchants of the elixir last 3 turns
C11_Witness ==
  /\ ret.op = "executeAction"
  /\ ret.action = Action("item", "elixir")
  /\ inventory.PLAYER[1] = NullItem
  /\ inventory.PLAYER[2] = NullItem
  /\ cs.player.health = 100
  /\ Timed(CombArr(effects.PLAYER))
       = <<[type |-> "ENCHANT_DEFENSE", duration |-> 3, power |-> 2],
           [type |-> "ENCHANT_SPEED", duration |-> 3, power |-> 1]>>

\* C12: an item action whose id names no item of the turn owner changes nothing but
\* the log: both combatants, the effects with their durations, the inventories, the
\* turn owner, the phase and turnCount stay as they were, and the call logs exactly
\* one entry, Item not found
C12_UnknownItemIsNoOp ==
  [][(ItemStep /\ ItemIndex(inventory[cs.turn], ret'.action.itemId) = 0)
       => /\ cs'.player = cs.player
          /\ cs'.enemy = cs.enemy
          /\ effects' = effects
          /\ inventory' = inventory
          /\ cs'.turn = cs.turn
          /\ cs'.phase = cs.phase
          /\ cs'.turnCount = cs.turnCount
          /\ cs'.combatLog = <<LogEntry("Item not found", cs.turn, 0)>>]_vars

FleeStep == cs.isActive /\ ret'.op = "executeAction" /\ ret'.action.type = "flee"

\* the flee chance in percent, from the speeds at the start of the turn
FleePercent == LET x == cs.turn
               IN 30 + Max(0, 5 * (Combatant(TurnStarted.cs, x).speed
                                     - Combatant(TurnStarted.cs, Other(x)).speed))

\* C13: a flee succeeds when the roll is below 0.3 + max(0, 0.05 * (own speed -
\* opponent speed)), which is never below 0.3 and is 0.8 for speeds 15 against 5; a
\* successful flee ends the encounter in phase ENDED with no reward; a failed flee
\* leaves health, effects and inventories as the turn start left them, logs its
\* narration and consumes the turn
C13_Flee ==
  [][FleeStep
       => /\ FleePercent >= 30
          /\ (Combatant(cs, cs.turn).speed = 15 /\ Combatant(cs, Other(cs.turn)).speed = 5)
               => FleePercent = 80
          /\ ret'.roll < FleePercent
               => /\ ~cs'.isActive
                  /\ cs'.phase = "ENDED"
                  /\ getRewards(cs', 99, 99) = [experience |-> 0, gold |-> 0, items |-> <<>>]
          /\ ret'.roll >= FleePercent
               => /\ cs'.player = TurnStarted.cs.player
                  /\ cs'.enemy = TurnStarted.cs.enemy
                  /\ effects' = TurnStarted.effects
                  /\ inventory' = inventory
                  /\ \E k \in 1..Len(cs'.combatLog) :
                       cs'.combatLog[k] = LogEntry("could not escape", cs.turn, 0)
                  /\ cs'.isActive
                       => /\ cs'.turn = progressTurn(TurnStarted).cs.turn
                          /\ cs'.phase = progressTurn(TurnStarted).cs.phase
                          /\ cs'.turnCount = progressTurn(TurnStarted).cs.turnCount]_vars

\* ---- the properties of StatusEffectManager, under SpecLedger
\* the character's own statusEffects array, as name, type, duration and power
Ledger(cells) == LET arr == OrigArr(cells) IN [k \in 1..Len(arr) |-> Plain(arr[k])]

\* the positions of arr holding the type and name of e
Same(arr, e) == {k \in 1..Len(arr) : arr[k].type = e.type /\ arr[k].name = e.name}

\* a step of applyEffect that finds an effect of the incoming type and name
MergeStep(types) ==
  /\ ret'.op = "applyEffect"
  /\ ret'.effect.type \in types
  /\ Same(Ledger(effects.PLAYER), ret'.effect) # {}

\* C14: applying a POISON or REGENERATION effect to a character that has an effect
\* of the same type and name leaves one entry of that type and name, with the sum of
\* the powers and the larger of the durations; the array keeps its length and every
\* other entry is unchanged
C14_CumulativeStacking ==
  [][MergeStep({"POISON", "REGENERATION"})
       => LET before == Ledger(effects.PLAYER)
              after == Ledger(effects'.PLAYER)
              e == ret'.effect
          IN /\ Len(after) = Len(before)
             /\ Cardinality(Same(after, e)) = 1
             /\ \A k \in 1..Len(before) :
                  IF k \in Same(before, e)
                  THEN /\ after[k].power = before[k].power + e.power
                       /\ after[k].duration = Max(before[k].duration, e.duration)
                       /\ after[k].name = e.name /\ after[k].type = e.type
                  ELSE after[k] = before[k]]_vars

\* powers 3 and 4 with durations 2 and 5 have become one poison of power 7, duration 5
C14_Witness ==
  /\ ret.op = "applyEffect"
  /\ calls = 2
  /\ Ledger(effects.PLAYER)
       = <<[name |-> "Poison", type |-> "POISON", duration |-> 5, power |-> 7]>>

Enchants == {"ENCHANT_ATTACK", "ENCHANT_DEFENSE", "ENCHANT_SPEED"}

\* C15: applying an enchant to a character that has an enchant of the same type and
\* name replaces the power only when the incoming power is strictly greater;
\* otherwise the power is kept and the duration becomes the larger of the two; either
\* way one entry of that type and name remains and every other entry is unchanged
C15_EnchantStacking ==
  [][MergeStep(Enchants)
       => LET before == Ledger(effects.PLAYER)
              after == Ledger(effects'.PLAYER)
              e == ret'.effect
          IN /\ Len(after) = Len(before)
             /\ Cardinality(Same(after, e)) = 1
             /\ \A k \in 1..Len(before) :
                  IF k \in Same(before, e)
                  THEN IF e.power > before[k].power
                       THEN after[k].power = e.power
                       ELSE /\ after[k].power = before[k].power
                            /\ after[k].duration = Max(before[k].duration, e.duration)
                  ELSE after[k] = before[k]]_vars

\* power 2, duration 3 applied after power 5, duration 2 has given power 5, duration 3
C15_Witness ==
  /\ ret.op = "applyEffect"
  /\ ret.effect = createAttackBoost(2, 3)
  /\ calls = 2
  /\ Ledger(effects.PLAYER)
       = <<[name |-> "Attack Boost", type |-> "ENCHANT_ATTACK", duration |-> 3, power |-> 5]>>

\* what a ledger turn leaves of arr: the effects with more than one turn to run, in
\* their order, each with one turn less
Remaining(arr) ==
  LET kept == SelectSeq(arr, LAMBDA c : c.duration > 1)
  IN [k \in 1..Len(kept) |-> [kept[k] EXCEPT !.duration = @ - 1]]

\* how many entries of arr have the type
OfType(arr, type) == Cardinality({k \in 1..Len(arr) : arr[k].type = type})

\* how many of the results say so
Saying(results, result) == Cardinality({k \in 1..Len(results) : results[k].result = result})

\* C17: every effect in the ledger has a positive duration; a processTurnEffects
\* call lets every effect act once (poison damages, regeneration heals up to
\* maxHealth, growth raises maxHealth, health and attack, stun is reported), lowers
\* every duration by one, keeps exactly the effects that still have a turn to run,
\* and reports each effect it removes as worn off; so an effect of duration d acts
\* in the next d calls and is gone after the d-th
C17_LedgerLifetime ==
  /\ [](\A k \in 1..Len(Ledger(effects.PLAYER)) : Ledger(effects.PLAYER)[k].duration >= 1)
  /\ [][ret'.op = "processTurnEffects"
          => LET before == Ledger(effects.PLAYER)
                 after == Ledger(effects'.PLAYER)
                 results == ret'.results
                 me == chars.PLAYER
                 poison == SumPower(before, "POISON")
                 regen == SumPower(before, "REGENERATION")
                 growth == OfType(before, "GROWTH")
             IN /\ after = Remaining(before)
                /\ Saying(results, "has worn off")
                     = Cardinality({k \in 1..Len(before) : before[k].duration = 1})
                /\ \A k \in 1..Len(before) :
                     before[k].duration = 1
                       => \E j \in 1..Len(results) :
                            results[j] = Result(before[k].name, "has worn off", 0)
                /\ Saying(results, "takes poison damage") = OfType(before, "POISON")
                /\ Saying(results, "regenerates health") = OfType(before, "REGENERATION")
                /\ Saying(results, "grows stronger") = growth
                /\ Saying(results, "is stunned") = OfType(before, "STUN")
                /\ chars'.PLAYER.maxHealth = me.maxHealth + 2 * growth
                /\ chars'.PLAYER.attack = me.attack + growth
                /\ (regen = 0 /\ growth = 0)
                     => chars'.PLAYER.health = Max(0, me.health - poison)
                /\ (poison = 0 /\ growth = 0)
                     => chars'.PLAYER.health = Min(me.maxHealth, me.health + regen)
                /\ (poison = 0 /\ regen = 0)
                     => chars'.PLAYER.health = me.health + 2 * growth]_vars

\* a poison of power 3 and duration 2 has acted twice and was removed by the second
\* call, which reported it
C17_Witness ==
  /\ ret.op = "processTurnEffects"
  /\ calls = 3
  /\ ret.results = <<Result("Poison", "takes poison damage", -3),
                     Result("Poison", "has worn off", 0)>>
  /\ chars.PLAYER.health = 94
  /\ effects.PLAYER = <<>>

\* ---- the properties of LevelingSystem, under SpecLeveling
\* C18: addExperience with a threshold above zero and an amount of at least zero
\* returns after at most as many level-ups as there is experience to spend; then
\* the experience is below the threshold, the threshold is above zero, the level is
\* not lower than before, and the level-up results are as many as the levels gained
C18_AddExperience ==
  [][(ret'.op = "addExperience" /\ chars.PLAYER.experienceToNext > 0 /\ ret'.amount >= 0)
       => /\ chars'.PLAYER.experience < chars'.PLAYER.experienceToNext
          /\ chars'.PLAYER.experienceToNext > 0
          /\ chars'.PLAYER.level >= chars.PLAYER.level
          /\ Len(ret'.results) = chars'.PLAYER.level - chars.PLAYER.level
          /\ Len(ret'.results) <= chars.PLAYER.experience + ret'.amount]_vars

\* 1000 points have taken a new character through four levels in one call
C18_Witness ==
  /\ ret.op = "addExperience"
  /\ ret.amount = 1000
  /\ calls = 1
  /\ ret.results = <<2, 3, 4, 5>>
  /\ chars.PLAYER.level = 5
  /\ chars.PLAYER.experience = 200
  /\ chars.PLAYER.experienceToNext = 318

\* C19: a character with experience 0 that is given exactly its threshold gains
\* exactly one level and has experience 0 again, at every level
C19_ExactThreshold ==
  [][(/\ ret'.op = "addExperience"
      /\ chars.PLAYER.experience = 0
      /\ ret'.amount = chars.PLAYER.experienceToNext)
       => /\ chars'.PLAYER.level = chars.PLAYER.level + 1
          /\ Len(ret'.results) = 1
          /\ chars'.PLAYER.experience = 0]_vars

\* the threshold has been fed three times in a row, from level 1 to level 4
C19_Witness ==
  /\ ret.op = "addExperience"
  /\ calls = 3
  /\ ret.amount = 237
  /\ chars.PLAYER.level = 4
  /\ chars.PLAYER.experience = 0
  /\ chars.PLAYER.experienceToNext = 281

\* the stat the scaling is said to give
ClampedScale(stat, template, targetLevel) ==
  Max(1, (stat * (10 + targetLevel - template.level)) \div 10)

\* C20: the enemy returned by scaleEnemyToLevel has maxHealth, health, attack,
\* defense and speed each equal to max(1, floor(stat * (1 + 0.1 * (targetLevel -
\* template level)))), so none is below 1, and its health is its maxHealth
C20_ScaledStatsAtLeastOne ==
  [][ret'.op = "scaleEnemyToLevel"
       => LET t == ret'.template
              l == ret'.targetLevel
              enemy == chars'.ENEMY
          IN /\ enemy.maxHealth = ClampedScale(t.maxHealth, t, l)
             /\ enemy.health = enemy.maxHealth
             /\ enemy.attack = ClampedScale(t.attack, t, l)
             /\ enemy.defense = ClampedScale(t.defense, t, l)
             /\ enemy.speed = ClampedScale(t.speed, t, l)
             /\ enemy.maxHealth >= 1 /\ enemy.attack >= 1
             /\ enemy.defense >= 1 /\ enemy.speed >= 1]_vars

\* ---- back under Spec
\* C16: a combatant never holds two active effects of the same type and name, for
\* every type other than GROWTH, whether the effects came from applyEffect or from
\* the combat actions defend and item
C16_OneEffectPerTypeAndName ==
  \A who \in {"PLAYER", "ENEMY"} :
    LET arr == CombArr(effects[who])
    IN \A i \in 1..Len(arr), j \in 1..Len(arr) :
         (i # j /\ arr[i].type # "GROWTH")
           => ~(arr[i].type = arr[j].type /\ arr[i].name = arr[j].name)

\* ---- the properties of InventoryManager and the chests, under SpecTreasure
\* the items of an inventory, empty slots left out
Held(slots) == SelectSeq(slots, LAMBDA item : item # NullItem)

\* C21: the items array always has MAX_INVENTORY_SLOTS slots, so never more items
\* than that; addItem on a full inventory returns false and changes nothing, and
\* otherwise it returns true, puts the item into the empty slot of the lowest index
\* and leaves every other slot unchanged
C21_InventoryCapacity ==
  /\ [](/\ Len(inventory.PLAYER) = MAX_INVENTORY_SLOTS
        /\ Len(Held(inventory.PLAYER)) <= MAX_INVENTORY_SLOTS)
  /\ [][ret'.op = "addItem"
          => LET empty == {i \in 1..MAX_INVENTORY_SLOTS : inventory.PLAYER[i] = NullItem}
             IN IF empty = {}
                THEN ret'.returned = FALSE /\ inventory' = inventory
                ELSE /\ ret'.returned = TRUE
                     /\ \A i \in 1..MAX_INVENTORY_SLOTS :
                          inventory'.PLAYER[i]
                            = IF i \in empty /\ \A j \in empty : i <= j
                              THEN ret'.arg ELSE inventory.PLAYER[i]]_vars

\* the coin went into the gap of slot 2, before the later slots
C21_Witness ==
  /\ ret.op = "addItem"
  /\ ret.returned = TRUE
  /\ inventory.PLAYER = <<Ruby, CopperCoin, Elixir, EmptyVial>>

\* a and b hold the same items, each as often
SameItems(a, b) ==
  \A i \in DOMAIN a :
    Cardinality({j \in DOMAIN a : a[j] = a[i]}) = Cardinality({j \in DOMAIN b : b[j] = a[i]})

\* a useItem step naming an item of the type that has durability left
EquipStep(type) ==
  /\ ret'.op = "useItem"
  /\ ItemIndex(inventory.PLAYER, ret'.arg) # 0
  /\ inventory.PLAYER[ItemIndex(inventory.PLAYER, ret'.arg)].type = type
  /\ inventory.PLAYER[ItemIndex(inventory.PLAYER, ret'.arg)].durability > 0

\* C22: useItem on a weapon (an armor) W with durability left returns true, and
\* afterwards getEquippedWeapon (getEquippedArmor) returns W, also when W was the
\* equipped item before; the inventory holds the same items in permuted slots
C22_EquipMakesEquipped ==
  [][/\ EquipStep("WEAPON")
          => /\ ret'.returned = TRUE
             /\ getEquippedWeapon(inventory'.PLAYER).id = ret'.arg
             /\ SameItems(inventory.PLAYER, inventory'.PLAYER)
     /\ EquipStep("ARMOR")
          => /\ ret'.returned = TRUE
             /\ getEquippedArmor(inventory'.PLAYER).id = ret'.arg
             /\ SameItems(inventory.PLAYER, inventory'.PLAYER)]_vars

\* the timed effects the non-health stats of a consumable are said to become
StatEffectTypes(item) ==
  (IF item.attack # 0 THEN {"ENCHANT_ATTACK"} ELSE {})
    \cup (IF item.defense # 0 THEN {"ENCHANT_DEFENSE"} ELSE {})
    \cup (IF item.speed # 0 THEN {"ENCHANT_SPEED"} ELSE {})

\* C23: useItem on a consumable heals by the item's health stat up to maxHealth,
\* leaves a timed status effect on the character for each of the item's attack,
\* defense and speed stats, and removes the item; useItem with an unknown id
\* returns false and changes nothing
C23_UseConsumable ==
  [][ret'.op = "useItem"
       => LET i == ItemIndex(inventory.PLAYER, ret'.arg)
              item == inventory.PLAYER[i]
              after == Ledger(effects'.PLAYER)
          IN /\ i = 0 => (ret'.returned = FALSE
                            /\ UNCHANGED <<chars, inventory, effects, gc>>)
             /\ (i # 0 /\ item.type = "CONSUMABLE" /\ item.hasStats)
                  => /\ ret'.returned = TRUE
                     /\ chars'.PLAYER.health
                          = Min(chars.PLAYER.maxHealth, chars.PLAYER.health + item.health)
                     /\ inventory'.PLAYER = [inventory.PLAYER EXCEPT ![i] = NullItem]
                     /\ \A type \in StatEffectTypes(item) :
                          \E k \in 1..Len(after) :
                            after[k].type = type /\ after[k].duration >= 1]_vars

\* C24: a chest that is open stays open; openTreasureChest on an open chest returns
\* gold 0, no items and no dropped items and changes neither the character nor the
\* inventory; a movePlayer onto a position whose chests are all open changes
\* neither; so only the first open of a chest transfers anything
C24_ChestOpensOnce ==
  [][/\ \A c \in DOMAIN gc.treasureChests :
          gc.treasureChests[c].opened
            => /\ gc'.treasureChests[c] = gc.treasureChests[c]
               /\ (ret'.op = "openTreasureChest" /\ ret'.arg = c)
                    => /\ ret'.returned = [items |-> <<>>, gold |-> 0, dropped |-> <<>>]
                       /\ chars' = chars
                       /\ inventory' = inventory
     /\ (/\ ret'.op = "movePlayer"
         /\ \A c \in DOMAIN gc.treasureChests :
              gc.treasureChests[c].position = ret'.arg => gc.treasureChests[c].opened)
          => chars' = chars /\ inventory' = inventory]_vars

\* the chest was opened by a move onto it, and an open after that gave nothing
C24_Witness ==
  /\ ret.op = "openTreasureChest"
  /\ ret.returned = [items |-> <<>>, gold |-> 0, dropped |-> <<>>]
  /\ calls = 2
  /\ gc.position = ChestPosition
  /\ gc.treasureChests[1].opened
  /\ chars.PLAYER.gold = 65

\* what the slots that were empty in before hold in after, in slot order
Gained(before, after) ==
  LET n == Len(before)
  IN Held([i \in 1..n |-> IF before[i] = NullItem THEN after[i] ELSE NullItem])

\* C25: opening an unopened chest adds exactly the chest's gold, whatever the
\* inventory holds; with k the smaller of the number of chest items and the number
\* of empty slots, the returned items are the first k chest items and the returned
\* dropped items are the rest, in order; the returned items are what the empty
\* slots have gained, and the slots that held an item hold it still
C25_ChestLosesNothing ==
  [][\A c \in DOMAIN gc.treasureChests :
       (ret'.op = "openTreasureChest" /\ ret'.arg = c /\ ~gc.treasureChests[c].opened)
         => LET chest == gc.treasureChests[c]
                before == inventory.PLAYER
                k == Min(Len(chest.items), MAX_INVENTORY_SLOTS - Len(Held(before)))
            IN /\ chars'.PLAYER.gold = chars.PLAYER.gold + chest.gold
               /\ ret'.returned.gold = chest.gold
               /\ ret'.returned.items = SubSeq(chest.items, 1, k)
               /\ ret'.returned.dropped = SubSeq(chest.items, k + 1, Len(chest.items))
               /\ Gained(before, inventory'.PLAYER) = ret'.returned.items
               /\ \A i \in 1..MAX_INVENTORY_SLOTS :
                    before[i] # NullItem => inventory'.PLAYER[i] = before[i]]_vars

\* one gap for three chest items: the coin is in the inventory, the other two were
\* dropped, and the gold has arrived
C25_Witness ==
  /\ ret.op = "openTreasureChest"
  /\ ret.returned.items = <<CopperCoin>>
  /\ ret.returned.dropped = <<AttackTonic, IronSword>>
  /\ inventory.PLAYER = <<Ruby, CopperCoin, Elixir, EmptyVial>>
  /\ chars.PLAYER.gold = 65

\* ---- the properties of the generators and prices, under SpecShop
\* C26: for a level L and a roll r in [0, 100 + 2L), rollRarity returns LEGENDARY
\* iff r <= 1 + 2L, EPIC iff 1 + 2L < r <= 5 + 2L, RARE iff 5 + 2L < r <= 20 + 2L,
\* UNCOMMON iff 20 + 2L < r <= 50 + 2L and COMMON otherwise, always from inside the
\* loop; r is ret.halves / 2
C26_RarityRoll ==
  (ret.op = "rollRarity" /\ ret.done)
    => LET r == ret.halves
           b == 4 * ret.level
       IN /\ ret.inLoop
          /\ ret.returned = (IF r <= 2 + b THEN "LEGENDARY"
                             ELSE IF r <= 10 + b THEN "EPIC"
                             ELSE IF r <= 40 + b THEN "RARE"
                             ELSE IF r <= 100 + b THEN "UNCOMMON"
                             ELSE "COMMON")

\* at level 0 the roll 50 gave UNCOMMON
C26_Witness ==
  /\ ret.op = "rollRarity"
  /\ ret.done
  /\ ret.level = 0
  /\ ret.halves = 100
  /\ ret.returned = "UNCOMMON"

\* C27: calculateSellPrice returns max(1, floor(value * 0.5 * durability / maxDurability)),
\* the ratio being 1 for an item without durability or without maxDurability
C27_SellPrice ==
  (ret.op = "calculateSellPrice" /\ ret.done)
    => ret.returned
         = Max(1, IF ret.item.hasDurability /\ ret.item.maxDurability # 0
                  THEN (ret.item.value * ret.item.durability)
                         \div (2 * ret.item.maxDurability)
                  ELSE ret.item.value \div 2)

\* C28: generateShopInventory(level, count), for every level and count (also
\* count < 4), returns a list with a weapon, an armor, a COMMON consumable and an
\* UNCOMMON consumable, in which every value is floor(1.5 * the generated value)
C28_ShopInventory ==
  (ret.op = "generateShopInventory" /\ ret.done)
    => LET items == ret.returned
           Has(type, rarities) ==
             \E i \in 1..Len(items) : items[i].type = type /\ items[i].rarity \in rarities
           any == {Rarities[k] : k \in 1..Len(Rarities)}
       IN /\ Has("WEAPON", any)
          /\ Has("ARMOR", any)
          /\ Has("CONSUMABLE", {"COMMON"})
          /\ Has("CONSUMABLE", {"UNCOMMON"})
          /\ Len(items) = Len(ret.generated)
          /\ \A i \in 1..Len(items) :
               /\ items[i].value = (3 * ret.generated[i].value) \div 2
               /\ [items[i] EXCEPT !.value = 0] = [ret.generated[i] EXCEPT !.value = 0]

\* a shop of level 1 asked for 2 items came back with the 4 guaranteed ones, the
\* COMMON consumable generated at 15 gold priced at 22
C28_Witness ==
  /\ ret.op = "generateShopInventory"
  /\ ret.done
  /\ ret.level = 1
  /\ ret.itemCount = 2
  /\ Len(ret.returned) = 4
  /\ ret.generated[3].value = 15
  /\ ret.returned[3].value = 22

\* ---- back under Spec
\* C29: no action of an encounter changes the Character objects that were passed to
\* the constructor: their fields, the slots and the durability of the items of their
\* inventory, and the entries of their statusEffects array
C29_EncounterIsolation ==
  [][/\ chars' = chars
     /\ inventory' = inventory
     /\ \A o \in Owners : Ledger(effects'[o]) = Ledger(effects[o])]_vars

\* ---- the property of replays, under SpecReplay
\* the two encounters agree on everything but the ids of their effects
ReplayedAlike == ret.twin = World

\* C30: two encounters started from equal combatants and driven by the same actions
\* and the same draws are in identical states after every call: fields, status
\* effects, inventories, durabilities, turn, phase, turnCount and log messages
C30_Replayability ==
  ret.op = "executeAction" => ReplayedAlike /\ ret.ids[1] = ret.ids[2]

\* ---- the property of saved games, under SpecSave
\* C31: loadGame never installs an invalid state: after any load the player's health
\* lies between 0 and maxHealth and the inventory has maxSlots slots
C31_LoadRejectsInvalid ==
  /\ HealthInBounds(chars.PLAYER)
  /\ Len(inventory.PLAYER) = MAX_INVENTORY_SLOTS

\* ---- the property of turn-start processing, under SpecTurnStart
\* C32: the engine's turn-start processing and StatusEffectManager.processTurnEffects
\* leave the same health, maxHealth, attack and remaining effect list
C32_TurnStartAgrees == ret.done => ret.engine = ret.ledger

\* ---- the property of effective stats, under SpecStats
\* C33: getEffectiveStats returns the attack and defense totals calculateDamage
\* uses (equipped weapon and armor only, plus the enchants) and the speed combat uses
C33_EffectiveStatsAgree == ret.done => ret.stats = ret.combat

\* ---- back under Spec
\* the world after the turn-start processing of a call of executeAction
AfterTurnStart ==
  LET w0 == [World EXCEPT !.cs.combatLog = <<>>]
  IN IF cs.phase = "ATTACK" THEN applyStatusEffects(w0) ELSE w0

\* C34: a defeated combatant never acts: when the turn owner's health is 0 after the
\* turn-start processing, nothing is dispatched and the encounter ends as it stands
C34_DefeatedNeverActs ==
  [][(cs.isActive /\ Combatant(AfterTurnStart.cs, cs.turn).health = 0)
       => /\ ~cs'.isActive
          /\ chars' = checkCombatEnd(AfterTurnStart).chars
          /\ cs' = checkCombatEnd(AfterTurnStart).cs
          /\ inventory' = checkCombatEnd(AfterTurnStart).inventory
          /\ effects' = checkCombatEnd(AfterTurnStart).effects]_vars

\* ---- back under SpecGC
\* C35: when the controller ends an encounter, gameState.player.health is the health
\* of the encounter's player combatant in the final encounter state, plus the health
\* gained by the level-ups of the reward
C35_OutcomeCarriesOver ==
  [][(gc.combatEngine /\ ~gc'.combatEngine)
       => chars'.PLAYER.health
            = cs'.player.health + (chars'.PLAYER.maxHealth - chars.PLAYER.maxHealth)]_vars

\* ---- back under SpecLeveling
\* C36: experience is conserved: for a character built by createCharacter,
\* experienceToNext is always required(level + 1) - required(level), and every
\* addExperience(amount) raises getTotalExperience by exactly amount, so the total is
\* the one at creation plus the sum of the amounts added
C36_ExperienceConserved ==
  /\ [](chars.PLAYER.experienceToNext
          = getExperienceRequiredForLevel(chars.PLAYER.level + 1)
              - getExperienceRequiredForLevel(chars.PLAYER.level))
  /\ [][getTotalExperience(chars'.PLAYER)
          = getTotalExperience(chars.PLAYER)
              + (IF ret'.op = "addExperience" THEN ret'.amount ELSE 0)]_vars

\* the third addExperience in a row took a character created at level 1 through
\* several levels at once
C36_Witness ==
  /\ ret.op = "addExperience"
  /\ calls = 3
  /\ Len(ret.results) >= 2
  /\ ret.amount = 1000
  /\ getTotalExperience(chars.PLAYER) > 1000

\* ---- back under SpecShop
\* C37: no profit from trading: for every item, of any value >= 0 and any durability,
\* calculateSellPrice(item) <= item.value
C37_NoProfitFromTrading ==
  (ret.op = "calculateSellPrice" /\ ret.done) => ret.returned <= ret.item.value

\* ---- the property of encounters under attack, under SpecAttack
\* C38: if from some point on every submitted action is an attack and infinitely many
\* attacks land (neither dodged nor blocked), the encounter eventually becomes
\* inactive, in phase ENDED or REWARD; ret.landed says whether the last call was an
\* attack that landed
C38_AttacksTerminate ==
  ([]<><<ret'.landed>>_vars /\ <>[](ret.action.type = "attack"))
    => <>(~cs.isActive /\ cs.phase \in {"ENDED", "REWARD"})

\* an encounter that went on under attack beyond the opening and was won
C38_Witness ==
  /\ ret.landed
  /\ ~cs.isActive
  /\ cs.phase = "REWARD"
  /\ cs.turnCount = MaxTurnCount

====
